---- MODULE Spec2Model ----
(***************************************************************************)
(* A model of the copy-toolchain command of IBM/continuous-delivery-tools: *)
(* the orchestrator (cmd/copy-toolchain.js, main), the snapshot importer   *)
(* (importTerraform), the export composer (cmd/utils/terraform.js,         *)
(* setupTerraformFiles) and the validators (cmd/utils/validate.js).        *)
(*                                                                         *)
(* A JavaScript string is modelled as a sequence of one-character strings, *)
(* so that startsWith, endsWith, split, slice and the regular expressions  *)
(* of the code are computed character by character.  Render turns such a   *)
(* sequence into a TLA+ string for comparison with a literal.              *)
(***************************************************************************)
EXTENDS Integers, Sequences, FiniteSets, TLC

----------------------------------------------------------------------------
(* Characters and JavaScript string methods *)

LowerChars == <<"a","b","c","d","e","f","g","h","i","j","k","l","m","n","o","p","q","r","s","t","u","v","w","x","y","z">>

UpperChars == <<"A","B","C","D","E","F","G","H","I","J","K","L","M","N","O","P","Q","R","S","T","U","V","W","X","Y","Z">>

DigitChars == {"0","1","2","3","4","5","6","7","8","9"}

IsLower(c) == \E i \in DOMAIN LowerChars : LowerChars[i] = c

IsUpper(c) == \E i \in DOMAIN UpperChars : UpperChars[i] = c

IsAlnum(c) == IsLower(c) \/ IsUpper(c) \/ c \in DigitChars

ToLowerChar(c) ==
    IF IsUpper(c) THEN LowerChars[CHOOSE i \in DOMAIN UpperChars : UpperChars[i] = c] ELSE c

ToLowerCase(s) == [i \in 1..Len(s) |-> ToLowerChar(s[i])]

SetMin(S) == CHOOSE x \in S : \A y \in S : x <= y

SetMax(S) == CHOOSE x \in S : \A y \in S : y <= x

StartsWith(s, p) == Len(p) <= Len(s) /\ SubSeq(s, 1, Len(p)) = p

EndsWith(s, p) == Len(p) <= Len(s) /\ SubSeq(s, Len(s) - Len(p) + 1, Len(s)) = p

Includes(s, p) == \E i \in 1..(Len(s) - Len(p) + 1) : SubSeq(s, i, i + Len(p) - 1) = p

\* s.slice(from, to) with 0-based from and exclusive to, both within the string
Slice(s, from, to) == SubSeq(s, from + 1, to)

IsSpace(c) == c \in {" ", "\t", "\n", "\r"}

Trim(s) ==
    LET keep == {i \in 1..Len(s) : ~IsSpace(s[i])}
    IN  IF keep = {} THEN <<>> ELSE SubSeq(s, SetMin(keep), SetMax(keep))

RECURSIVE Split(_, _)
\* s.split(c) for a one-character separator c
Split(s, c) ==
    LET at == {i \in 1..Len(s) : s[i] = c}
    IN  IF at = {} THEN <<s>>
        ELSE <<SubSeq(s, 1, SetMin(at) - 1)>> \o Split(SubSeq(s, SetMin(at) + 1, Len(s)), c)

RECURSIVE Join(_, _)
\* parts.join(c)
Join(parts, c) ==
    IF parts = <<>> THEN <<>>
    ELSE IF Len(parts) = 1 THEN parts[1]
    ELSE parts[1] \o <<c>> \o Join(Tail(parts), c)

RECURSIVE Render(_)
\* the string a character sequence spells
Render(s) == IF s = <<>> THEN "" ELSE Head(s) \o Render(Tail(s))

----------------------------------------------------------------------------
(* config.js *)

RESERVED_GRIT_PROJECT_NAMES ==
    { <<"\\","-">>,
      <<"b","a","d","g","e","s">>,
      <<"b","l","a","m","e">>,
      <<"b","l","o","b">>,
      <<"b","u","i","l","d","s">>,
      <<"c","o","m","m","i","t","s">>,
      <<"c","r","e","a","t","e">>,
      <<"c","r","e","a","t","e","_","d","i","r">>,
      <<"e","d","i","t">>,
      <<"e","n","v","i","r","o","n","m","e","n","t","s","/","f","o","l","d","e","r","s">>,
      <<"f","i","l","e","s">>,
      <<"f","i","n","d","_","f","i","l","e">>,
      <<"g","i","t","l","a","b","-","l","f","s","/","o","b","j","e","c","t","s">>,
      <<"i","n","f","o","/","l","f","s","/","o","b","j","e","c","t","s">>,
      <<"n","e","w">>,
      <<"p","r","e","v","i","e","w">>,
      <<"r","a","w">>,
      <<"r","e","f","s">>,
      <<"t","r","e","e">>,
      <<"u","p","d","a","t","e">>,
      <<"w","i","k","i","s">> }

RESERVED_GRIT_GROUP_NAMES ==
    { <<"\\","-">>,
      <<".","w","e","l","l","-","k","n","o","w","n">>,
      <<"4","0","4",".","h","t","m","l">>,
      <<"4","2","2",".","h","t","m","l">>,
      <<"5","0","0",".","h","t","m","l">>,
      <<"5","0","2",".","h","t","m","l">>,
      <<"5","0","3",".","h","t","m","l">>,
      <<"a","d","m","i","n">>,
      <<"a","p","i">>,
      <<"a","p","p","l","e","-","t","o","u","c","h","-","i","c","o","n",".","p","n","g">>,
      <<"a","s","s","e","t","s">>,
      <<"d","a","s","h","b","o","a","r","d">>,
      <<"d","e","p","l","o","y",".","h","t","m","l">>,
      <<"e","x","p","l","o","r","e">>,
      <<"f","a","v","i","c","o","n",".","i","c","o">>,
      <<"f","a","v","i","c","o","n",".","p","n","g">>,
      <<"f","i","l","e","s">>,
      <<"g","r","o","u","p","s">>,
      <<"h","e","a","l","t","h","_","c","h","e","c","k">>,
      <<"h","e","l","p">>,
      <<"i","m","p","o","r","t">>,
      <<"j","w","t">>,
      <<"l","o","g","i","n">>,
      <<"o","a","u","t","h">>,
      <<"p","r","o","f","i","l","e">>,
      <<"p","r","o","j","e","c","t","s">>,
      <<"p","u","b","l","i","c">>,
      <<"r","o","b","o","t","s",".","t","x","t">>,
      <<"s">>,
      <<"s","e","a","r","c","h">>,
      <<"s","i","t","e","m","a","p">>,
      <<"s","i","t","e","m","a","p",".","x","m","l">>,
      <<"s","i","t","e","m","a","p",".","x","m","l",".","g","z">>,
      <<"s","l","a","s","h","-","c","o","m","m","a","n","d","-","l","o","g","o",".","p","n","g">>,
      <<"s","n","i","p","p","e","t","s">>,
      <<"u","n","s","u","b","s","c","r","i","b","e","s">>,
      <<"u","p","l","o","a","d","s">>,
      <<"u","s","e","r","s">>,
      <<"v","2">> }

RESERVED_GRIT_SUBGROUP_NAME == <<"\\","-">>

----------------------------------------------------------------------------
(* utils.js: replaceUrlRegion, with the URL class of Node it relies on *)

SchemeSep == <<":","/","/">>

UrlSchemes == { <<"h","t","t","p","s">>, <<"h","t","t","p">> }

HostChars == {"-", ".", ":"}

\* new URL(s) for the URLs a repo_url holds, scheme://host[/path]: the scheme
\* and the host are lower-cased, an empty path is "/"; anything else throws.
ParseUrl(s) ==
    LET cut == {i \in 1..(Len(s) - 2) : SubSeq(s, i, i + 2) = SchemeSep}
    IN  IF cut = {} THEN [ok |-> FALSE]
        ELSE
          LET at     == SetMin(cut)
              scheme == ToLowerCase(SubSeq(s, 1, at - 1))
              rest   == SubSeq(s, at + 3, Len(s))
              slash  == {i \in 1..Len(rest) : rest[i] = "/"}
              host   == IF slash = {} THEN rest ELSE SubSeq(rest, 1, SetMin(slash) - 1)
              path   == IF slash = {} THEN <<"/">> ELSE SubSeq(rest, SetMin(slash), Len(rest))
          IN  IF /\ scheme \in UrlSchemes
                 /\ host # <<>>
                 /\ \A i \in 1..Len(host) : IsAlnum(host[i]) \/ host[i] \in HostChars
              THEN [ok |-> TRUE, scheme |-> scheme, host |-> ToLowerCase(host), path |-> path]
              ELSE [ok |-> FALSE]

\* url.toString()
UrlToString(u) == u.scheme \o SchemeSep \o u.host \o u.path

\* the value of a field that is not there; no string of the model, whose
\* elements are single characters
Undefined == <<"undefined">>

\* String(undefined), the key an undefined value is looked up under
UndefinedKey == <<"u","n","d","e","f","i","n","e","d">>

\* (mutation) the url is parsed and serialized, no label of the host replaced
replaceUrlRegionKeepHost(inputUrl, srcRegion, targetRegion) ==
    IF inputUrl = Undefined \/ inputUrl = <<>> THEN <<>>
    ELSE
      LET url == ParseUrl(inputUrl)
      IN  IF ~url.ok THEN <<>> ELSE UrlToString(url)

\* utils.js replaceUrlRegion
replaceUrlRegion(inputUrl, srcRegion, targetRegion) ==
    IF inputUrl = Undefined \/ inputUrl = <<>> THEN <<>>
    ELSE
      LET url == ParseUrl(inputUrl)
      IN  IF ~url.ok THEN <<>>
          ELSE
            LET labels == Split(url.host, ".")
                mapped == [i \in 1..Len(labels) |->
                             IF labels[i] = srcRegion THEN targetRegion ELSE labels[i]]
            IN  UrlToString([url EXCEPT !.host = Join(mapped, ".")])

----------------------------------------------------------------------------
(* validate.js *)

GitHostSuffix == <<".","g","i","t",".","c","l","o","u","d",".","i","b","m",".","c","o","m">>

DotGit == <<".","g","i","t">>

DotAtom == <<".","a","t","o","m">>

GritHost(region) == <<"h","t","t","p","s",":","/","/">> \o region \o GitHostSuffix

\* /^[a-zA-Z0-9-._]{0,255}$/ and /^[a-zA-Z0-9-._\/]{0,255}$/
GritMaxLen == 255

pattern1(s) ==
    Len(s) <= GritMaxLen /\ \A i \in 1..Len(s) : IsAlnum(s[i]) \/ s[i] \in {"-", ".", "_"}

pattern1alt(s) ==
    Len(s) <= GritMaxLen /\ \A i \in 1..Len(s) : IsAlnum(s[i]) \/ s[i] \in {"-", ".", "_", "/"}

\* /^[a-zA-Z0-9].*$/ and /^.*[a-zA-Z0-9]$/ (no line breaks in the strings of the model)
pattern2(s) == s # <<>> /\ IsAlnum(s[1])

pattern3(s) == s # <<>> /\ IsAlnum(s[Len(s)])

\* /^.*[-._\/]{2,}.*$/
pattern4(s) ==
    \E i \in 1..(Len(s) - 1) : s[i] \in {"-", ".", "_", "/"} /\ s[i + 1] \in {"-", ".", "_", "/"}

\* The syntactic part of validateGritUrl: the slug it would return, or the
\* error it throws, before any request is made.
GritUrlSyntax(region, url, validateFull) ==
    LET prefix  == GritHost(region) \o <<"/">>
        fullOk  == StartsWith(url, prefix) /\ EndsWith(url, DotGit)
        trimmed == IF validateFull
                   THEN (IF fullOk THEN Slice(url, Len(prefix), Len(url) - Len(DotGit)) ELSE <<>>)
                   ELSE Trim(url)
        urlSplit    == Split(trimmed, "/")
        projectName == urlSplit[Len(urlSplit)]
        urlStart    == IF Len(urlSplit) < 2 THEN <<>>
                       ELSE Slice(trimmed, 0, Len(trimmed) - Len(projectName) - 1)
        err == IF validateFull /\ ~fullOk THEN "Provided full GRIT url is not valid"
               ELSE IF Len(urlSplit) < 2 THEN "Provided GRIT url is invalid (missing forward-slash)"
               ELSE IF projectName \in RESERVED_GRIT_PROJECT_NAMES THEN "Provided GRIT url invalid (contains reserved name)"
               ELSE IF urlStart \in RESERVED_GRIT_GROUP_NAMES THEN "Provided GRIT url invalid (contains reserved name)"
               ELSE IF Includes(urlStart, RESERVED_GRIT_SUBGROUP_NAME) THEN "Provided GRIT url invalid (contains reserved name)"
               ELSE IF ~pattern1(projectName) THEN "Provided project contains illegal character(s)"
               ELSE IF ~pattern2(projectName) THEN "Provided project does not start with an alphanumeric character"
               ELSE IF ~pattern3(projectName) THEN "Provided project does not end with an alphanumeric character"
               ELSE IF pattern4(projectName) THEN "Provided project contains consecutive special characters"
               ELSE IF ~pattern1alt(urlStart) THEN "Provided user/group contains illegal character(s)"
               ELSE IF ~pattern2(urlStart) THEN "Provided user/group does not start with an alphanumeric character"
               ELSE IF ~pattern3(urlStart) THEN "Provided user/group does not end with an alphanumeric character"
               ELSE IF pattern4(urlStart) THEN "Provided user/group contains consecutive special characters"
               ELSE IF EndsWith(projectName, DotGit) /\ ~EndsWith(projectName, DotAtom) THEN "Provided GRIT url contains .git or .atom suffix"
               ELSE ""
    IN  [ok |-> err = "", err |-> err, trimmed |-> trimmed]

----------------------------------------------------------------------------
(* The state of one run of copy-toolchain *)

VARIABLES
    skipUserConfirmation, \* options.force
    dryRun,               \* options.dryRun
    DEBUG_MODE,           \* the temp folder is preserved
    isCompact,            \* options.compact: one resources.tf for all resources
    pc,                   \* where main is
    started,              \* the stages started so far, in order
    completed,            \* the stages that ended without failure, in order
    failed,               \* the stage that failed, "none" if none did
    exitCode,             \* the code given to exit, -1 while the process runs
    tempDir,              \* TEMP_DIR exists
    logStream,            \* "none" (LOG_DUMP is false), "open" or "closed"
    log,                  \* what the logger was given: a set of records
    prompts,              \* the questions put to the operator so far
    tries,                \* rejected answers to the prompt now open
    gritFile,             \* the entries of the GRIT mapping file, in file order
    gritPending,          \* the entries whose validateGritUrl promise is unsettled
    errorCount,           \* main's errorCount
    sameName,             \* where toolchains of the same name already exist
    dupTcName,            \* the name warnDuplicateName was called with
    tcName,               \* targetToolchainName
    targetTag,            \* targetTag
    tools,                \* the tools of the source toolchain, in API order
    toolIdx,              \* the tool importTerraform handles next
    importBlocks,         \* importTerraform's importBlocks
    importFile,           \* the import blocks written to import.tf, in order
    nonSecretRefs,        \* importTerraform's nonSecretRefs, and main's once the import returns
    hostedgit,            \* the ibm_cd_toolchain_tool_hostedgit resources, in document order
    gritIdx,              \* the hosted-git resource handled next
    gritMapping,          \* gritMapping: old repo url -> new repo url
    usedGritUrls,         \* usedGritUrls
    gritProjects,         \* the user/project and group/project slugs that exist in the target region
    gritChecked,          \* the resources for whose candidate validateGritUrl was called
    applies,              \* the terraform apply invocations so far, with their outcome
    applyErrors,          \* main's applyErrors
    disableTriggers,      \* !options.skipDisableTriggers
    github_integrated,    \* moreTfResources['github_integrated']: the legacy GHE tools
    generated,            \* the files of TEMP_DIR/generated: file name -> resource name -> resource
    files,                \* the generated files setupTerraformFiles has still to rewrite
    repoToTfName,         \* repoToTfName: repo url of a legacy tool -> name of its converted resource
    toolIdToTfName,       \* toolIdToTfName: id of a legacy tool -> name of its converted resource
    newConvertedTf,       \* newConvertedTf: name -> converted githubconsolidated resource
    outputDir,            \* the files written to the output directory: file name -> content
    drafts                \* a draft document and what each normalization pass made of it

optVars == <<skipUserConfirmation, dryRun, DEBUG_MODE, isCompact>>

ctlVars == <<pc, started, completed, failed, exitCode, tempDir, logStream>>

ioVars == <<log, prompts, tries>>

setupVars == <<gritFile, gritPending, errorCount, sameName, dupTcName, tcName, targetTag>>

importVars == <<tools, toolIdx, importBlocks, importFile, nonSecretRefs>>

gritVars == <<hostedgit, gritIdx, gritMapping, usedGritUrls, gritProjects, gritChecked>>

applyVars == <<applies, applyErrors>>

tfVars == <<disableTriggers, github_integrated, generated, files, repoToTfName, toolIdToTfName, newConvertedTf,
            outputDir, drafts>>

vars == <<optVars, ctlVars, ioVars, setupVars, importVars, gritVars, applyVars, tfVars>>

StageOrder == <<"Setup", "SnapshotImport", "ExportCompose", "Apply">>

\* nothing is collected, generated, converted or written yet
TfIdle ==
    /\ github_integrated = <<>>
    /\ generated = <<>>
    /\ files = <<>>
    /\ repoToTfName = <<>>
    /\ toolIdToTfName = <<>>
    /\ newConvertedTf = <<>>
    /\ outputDir = <<>>
    /\ drafts = <<>>

\* the source and target regions of the run (parseToolchainCrn, options.region)
SrcRegion == <<"c","a","-","t","o","r">>

TargetRegion == <<"e","u","-","g","b">>

Range(f) == {f[x] : x \in DOMAIN f}

----------------------------------------------------------------------------
(* validateGritUrl, with the requests it ends in *)

\* getGritUserProject, then getGritGroupProject: the project exists under a
\* user or under a group of the region
GritProjectExists(slug) == slug \in gritProjects

validateGritUrl(region, url, validateFull) ==
    LET syn == GritUrlSyntax(region, url, validateFull)
    IN  IF ~syn.ok THEN syn
        ELSE IF GritProjectExists(syn.trimmed) THEN syn
        ELSE [ok |-> FALSE, err |-> "Provided GRIT url not found", trimmed |-> syn.trimmed]

----------------------------------------------------------------------------
(* setupTerraformFiles: GRIT URL remediation (terraform.js 157-222) *)

\* the repo urls and slugs the runs of the model are given
UrlTorTeamProj == <<"h","t","t","p","s",":","/","/","c","a","-","t","o","r",".","g","i","t",".","c","l","o","u","d",".","i","b","m",".","c","o","m","/","t","e","a","m","/","p","r","o","j",".","g","i","t">>

UrlGbTeamProj == <<"h","t","t","p","s",":","/","/","e","u","-","g","b",".","g","i","t",".","c","l","o","u","d",".","i","b","m",".","c","o","m","/","t","e","a","m","/","p","r","o","j",".","g","i","t">>

UrlTorAB == <<"h","t","t","p","s",":","/","/","c","a","-","t","o","r",".","g","i","t",".","c","l","o","u","d",".","i","b","m",".","c","o","m","/","a","/","b",".","g","i","t">>

UrlGbAB == <<"h","t","t","p","s",":","/","/","e","u","-","g","b",".","g","i","t",".","c","l","o","u","d",".","i","b","m",".","c","o","m","/","a","/","b",".","g","i","t">>

UrlNoScheme == <<"c","a","-","t","o","r",".","g","i","t",".","c","l","o","u","d",".","i","b","m",".","c","o","m","/","t","e","a","m","/","p","r","o","j">>

SlugTeamProj == <<"t","e","a","m","/","p","r","o","j">>

SlugAB == <<"a","/","b">>

SlugNoSlash == <<"p","r","o","j">>

GritUrls == {UrlTorTeamProj, UrlGbTeamProj, UrlTorAB, UrlNoScheme}

GritSlugs == {SlugTeamProj, SlugAB}

\* what the operator may type at a GRIT prompt
GritAnswers == {<<>>, SlugTeamProj, <<" ">> \o SlugAB, SlugNoSlash}

\* the mapping files of the model, as the entries <<key, value>> of the JSON
\* object in file order; two keys of the fourth share a value, the first
\* value of the fifth is not a full GRIT url, the sixth has a third value
\* that is a url of the source region
GritFiles ==
    { <<>>,
      << <<UrlTorTeamProj, UrlGbAB>> >>,
      << <<UrlTorAB, UrlGbTeamProj>> >>,
      << <<UrlTorTeamProj, UrlGbAB>>, <<UrlTorAB, UrlGbAB>> >>,
      << <<UrlTorTeamProj, UrlNoScheme>>, <<UrlTorAB, UrlGbTeamProj>> >>,
      << <<UrlTorTeamProj, UrlNoScheme>>, <<UrlTorAB, UrlGbTeamProj>>, <<UrlGbAB, UrlTorAB>> >> }

\* JSON.parse of the file: the object with the entries as properties
MappingOf(file) ==
    [k \in {file[i][1] : i \in 1..Len(file)} |->
        file[CHOOSE i \in 1..Len(file) :
                file[i][1] = k /\ \A j \in (i + 1)..Len(file) : file[j][1] # k][2]]

MaxGritResources == 2

MaxPromptTries == 1

Logged(level, at, res) == [level |-> level, at |-> at, res |-> res]

\* a hosted-git resource as the draft holds it: url0 is its repo_url in the
\* draft (Undefined when the field is missing), how records which branch
\* wrote url, threw that the catch block ran
GritResourceOf(i, u) ==
    [name |-> "g" \o ToString(i), url0 |-> u, url |-> u, how |-> "pending", threw |-> FALSE]

HostedgitDocs ==
    UNION { { [i \in 1..n |-> GritResourceOf(i, f[i])] : f \in [1..n -> GritUrls \cup {Undefined}] }
            : n \in 0..MaxGritResources }

\* attemptAddUsedGritUrl throws
attemptAddThrows(url) == url \in usedGritUrls

\* the test of terraform.js 186; validateGritUrl is awaited only when the
\* tests before it pass, and its rejection is turned into false
CandidateChecked(newUrl) ==
    ~skipUserConfirmation /\ newUrl # <<>> /\ newUrl \notin usedGritUrls

AcceptCandidate(newUrl) ==
    \/ skipUserConfirmation
    \/ /\ newUrl # <<>>
       /\ newUrl \notin usedGritUrls
       /\ validateGritUrl(TargetRegion, newUrl, TRUE).ok

\* thisUrl in gritMapping
InGritMapping(thisUrl) == thisUrl \in DOMAIN gritMapping

\* (mutation) the url is left as it is
MappedUrlIdentity(thisUrl) == thisUrl

\* gritMapping[thisUrl]
MappedUrl(thisUrl) == gritMapping[thisUrl]

\* the catch block of the loop body: the error is logged and the loop goes on
GritCatch(r) ==
    /\ log' = log \cup {Logged("error", "grit", r.name)}
    /\ gritIdx' = gritIdx + 1
    /\ pc' = "grit"

GritNextResource ==
    /\ gritIdx' = gritIdx + 1
    /\ pc' = "grit"

\* one pass of the loop body, up to the prompt if there is one
GritResource ==
    /\ pc = "grit"
    /\ gritIdx <= Len(hostedgit)
    /\ LET r       == hostedgit[gritIdx]
           thisUrl == IF r.url = Undefined THEN UndefinedKey ELSE r.url
           newUrl  == replaceUrlRegion(r.url, SrcRegion, TargetRegion)
       IN  \/ /\ InGritMapping(thisUrl)
              /\ hostedgit' = [hostedgit EXCEPT ![gritIdx].url = MappedUrl(thisUrl),
                                                ![gritIdx].how = "mapping"]
              /\ GritNextResource
              /\ UNCHANGED <<gritMapping, usedGritUrls, gritChecked, prompts, log>>
           \/ /\ ~InGritMapping(thisUrl)
              /\ gritChecked' = IF CandidateChecked(newUrl)
                                THEN gritChecked \cup {r.name} ELSE gritChecked
              /\ IF AcceptCandidate(newUrl)
                 THEN IF attemptAddThrows(newUrl)
                      THEN /\ hostedgit' = [hostedgit EXCEPT ![gritIdx].url = newUrl,
                                                             ![gritIdx].how = "candidate",
                                                             ![gritIdx].threw = TRUE]
                           /\ GritCatch(r)
                           /\ UNCHANGED <<gritMapping, usedGritUrls, prompts>>
                      ELSE /\ hostedgit' = [hostedgit EXCEPT ![gritIdx].url = newUrl,
                                                             ![gritIdx].how = "candidate"]
                           /\ usedGritUrls' = usedGritUrls \cup {newUrl}
                           /\ gritMapping' = (thisUrl :> newUrl) @@ gritMapping
                           /\ GritNextResource
                           /\ UNCHANGED <<prompts, log>>
                 ELSE IF r.url = Undefined
                      \* thisUrl.slice in the prompt text throws a TypeError
                      THEN /\ hostedgit' = [hostedgit EXCEPT ![gritIdx].how = "none",
                                                             ![gritIdx].threw = TRUE]
                           /\ GritCatch(r)
                           /\ UNCHANGED <<gritMapping, usedGritUrls, prompts>>
                      ELSE /\ pc' = "gritPrompt"
                           /\ prompts' = prompts \cup {<<"grit", r.name>>}
                           /\ UNCHANGED <<hostedgit, gritIdx, gritMapping, usedGritUrls, log>>
    /\ UNCHANGED tfVars
    /\ UNCHANGED <<optVars, started, completed, failed, exitCode, tempDir, logStream, tries,
                   setupVars, importVars, gritProjects, applyVars>>

\* validateGritUrlPrompt on the trimmed answer
GritAnswerValid(str) ==
    \/ str = <<>>
    \/ /\ (GritHost(TargetRegion) \o <<"/">> \o str \o DotGit) \notin usedGritUrls
       /\ validateGritUrl(TargetRegion, str, FALSE).ok

\* the operator answers the prompt: promptUserInput asks again until the
\* answer validates, then the slug is written
GritPromptAnswer ==
    /\ pc = "gritPrompt"
    /\ \E ans \in GritAnswers :
         LET r      == hostedgit[gritIdx]
             str    == Trim(ans)
             newUrl == GritHost(TargetRegion) \o <<"/">> \o str \o DotGit
         IN  IF ~GritAnswerValid(str)
             THEN /\ tries < MaxPromptTries
                  /\ tries' = tries + 1
                  /\ UNCHANGED <<pc, hostedgit, gritIdx, gritMapping, usedGritUrls, log>>
             ELSE /\ tries' = 0
                  /\ GritNextResource
                  /\ IF str = <<>>
                     THEN /\ hostedgit' = [hostedgit EXCEPT ![gritIdx].how = "skipped"]
                          /\ log' = log \cup {Logged("print", "gritSkip", r.name)}
                          /\ UNCHANGED <<gritMapping, usedGritUrls>>
                     ELSE /\ hostedgit' = [hostedgit EXCEPT ![gritIdx].url = newUrl,
                                                            ![gritIdx].how = "prompt"]
                          /\ usedGritUrls' = usedGritUrls \cup {newUrl}
                          /\ gritMapping' = (r.url :> newUrl) @@ gritMapping
                          /\ UNCHANGED log
    /\ UNCHANGED tfVars
    /\ UNCHANGED <<optVars, started, completed, failed, exitCode, tempDir, logStream, prompts,
                   setupVars, importVars, gritProjects, gritChecked, applyVars>>

\* logger.close(): the stream, when there is one, is ended and flushed
LoggerClosed == IF logStream = "open" THEN "closed" ELSE logStream

\* the SIGINT handler promptUserInput installs (utils.js 55-59)
PromptSigint ==
    /\ pc \in {"gritPrompt", "namePrompt", "tagPrompt"}
    /\ log' = log \cup {Logged("print", "sigint", pc)}
    /\ logStream' = LoggerClosed
    /\ exitCode' = 1
    /\ pc' = "exit"
    /\ UNCHANGED tfVars
    /\ UNCHANGED <<optVars, started, completed, failed, tempDir, prompts, tries,
                   setupVars, importVars, gritVars, applyVars>>

----------------------------------------------------------------------------
(* The remediation loop on its own, over every draft, mapping file and set *)
(* of existing projects of the model                                       *)

InitGrit ==
    /\ skipUserConfirmation \in BOOLEAN
    /\ dryRun = FALSE
    /\ isCompact = FALSE
    /\ DEBUG_MODE = FALSE
    /\ pc = "grit"
    /\ started = <<"Setup", "SnapshotImport", "ExportCompose">>
    /\ completed = <<"Setup", "SnapshotImport">>
    /\ failed = "none"
    /\ exitCode = -1
    /\ tempDir = TRUE
    /\ logStream = "open"
    /\ log = {}
    /\ prompts = {}
    /\ tries = 0
    /\ gritPending = {}
    /\ errorCount = 0
    /\ sameName = {}
    /\ dupTcName = <<>>
    /\ tcName = <<>>
    /\ targetTag = <<>>
    /\ tools = <<>>
    /\ toolIdx = 1
    /\ importBlocks = <<>>
    /\ importFile = <<>>
    /\ nonSecretRefs = <<>>
    /\ hostedgit \in HostedgitDocs
    /\ gritIdx = 1
    /\ gritProjects \in SUBSET GritSlugs
    \* the values of a mapping file have passed validateGritUrl in Setup
    /\ gritFile \in {f \in GritFiles :
                       \A i \in 1..Len(f) : validateGritUrl(TargetRegion, f[i][2], TRUE).ok}
    /\ gritMapping = MappingOf(gritFile)
    /\ usedGritUrls = Range(gritMapping)
    /\ gritChecked = {}
    /\ applies = <<>>
    /\ applyErrors = FALSE
    /\ disableTriggers = TRUE
    /\ TfIdle

NextGrit == GritResource \/ GritPromptAnswer \/ PromptSigint

SpecGrit == InitGrit /\ [][NextGrit]_vars

----------------------------------------------------------------------------
(* validate.js: validateToolchainName, validateTag *)

AsciiPunct ==
    {"!", "\"", "#", "$", "%", "&", "'", "(", ")", "*", "+", ",", "-", ".", "/", ":", ";", "<",
     "=", ">", "?", "@", "[", "\\", "]", "^", "_", "{", "|", "}", "~", " ", "\t", "\n", "\r"}

\* [\x00-\x7F], for the characters the strings of the model are made of
\* (the grave accent, which no string here contains, is left out)
IsAscii(c) == IsAlnum(c) \/ c \in AsciiPunct

\* [a-zA-Z0-9-._ ]
IsNameChar(c) == IsAlnum(c) \/ c \in {"-", ".", "_", " "}

MaxNameLen == 128

MaxTagPart == 126

\* (mutation) the pattern is not tested, only the length
validateToolchainNameAnyChar(name) ==
    LET trimmed == Trim(name)
    IN  Len(trimmed) <= MaxNameLen /\ trimmed # <<>>

\* whether validateToolchainName returns (the trimmed name) rather than throws
validateToolchainName(name) ==
    LET trimmed == Trim(name)
    IN  /\ Len(trimmed) <= MaxNameLen
        /\ trimmed # <<>>
        /\ \A i \in 1..Len(trimmed) : ~IsAscii(trimmed[i]) \/ IsNameChar(trimmed[i])

\* whether validateTag returns rather than throws: three runs of 1..126
\* characters with colons allowed in the middle one, or 1..128 characters
\* without a colon
validateTag(tag) ==
    LET trimmed == Trim(tag)
        n       == Len(trimmed)
        plain(lo, hi) == \A i \in lo..hi : IsNameChar(trimmed[i])
        colon(lo, hi) == \A i \in lo..hi : IsNameChar(trimmed[i]) \/ trimmed[i] = ":"
    IN  /\ n <= MaxNameLen
        /\ \/ \E a \in 1..MaxTagPart : \E c \in 1..MaxTagPart :
                /\ n - a - c \in 1..MaxTagPart
                /\ plain(1, a)
                /\ colon(a + 1, n - c)
                /\ plain(n - c + 1, n)
           \/ n >= 1 /\ plain(1, n)

\* validateTagOrEmpty of warnDuplicateName
validateTagOrEmpty(str) == Trim(str) = <<>> \/ validateTag(str)

----------------------------------------------------------------------------
(* main: the catch blocks, handleCleanup and the prompts of Setup *)

\* fs.rmSync(TEMP_DIR) unless DEBUG_MODE
CleanedTempDir == IF DEBUG_MODE THEN tempDir ELSE FALSE

\* handleCleanup (copy-toolchain.js 363-368)
HandleCleanup ==
    /\ tempDir' = CleanedTempDir
    /\ logStream' = LoggerClosed

\* a stage of main keeps running: nothing of the control state changes but pc
StageGoes(to) ==
    /\ pc' = to
    /\ UNCHANGED <<started, completed, failed, exitCode, tempDir, logStream>>

\* (mutation) the catch block logs and falls through to the code after it
StageFailFallsThrough(stage, msg) ==
    /\ log' = log \cup {Logged("error", stage, msg)}
    /\ failed' = stage
    /\ HandleCleanup
    /\ IF stage = "Apply"
       THEN exitCode' = 1 /\ pc' = "exit" /\ UNCHANGED <<started, completed>>
       ELSE /\ pc' = CASE stage = "Setup" -> "import"
                       [] stage = "SnapshotImport" -> "compose"
                       [] OTHER -> "apply"
            /\ started' = Append(started, StageOrder[Len(started) + 1])
            /\ UNCHANGED <<completed, exitCode>>

\* a throw inside the try block of a stage, and the catch block it lands in:
\* the error is logged, handleCleanup is awaited, the process exits with 1
StageFail(stage, msg) ==
    /\ log' = log \cup {Logged("error", stage, msg)}
    /\ failed' = stage
    /\ HandleCleanup
    /\ exitCode' = 1
    /\ pc' = "exit"
    /\ UNCHANGED <<started, completed>>

\* the try block of a stage ends and the next one is entered
StageDone(stage, to) ==
    /\ completed' = Append(completed, stage)
    /\ started' = Append(started, StageOrder[Len(started) + 1])
    /\ pc' = to
    /\ UNCHANGED <<failed, exitCode, tempDir, logStream>>

\* the names, tags and answers of the model
SourceName == <<"t","c">>

OptNames == {<<>>, <<"c","o","p","y">>, <<"b","a","d","/","n","a","m","e">>}

OptTags == {<<>>, <<"e","n","v",":","p","r","o","d">>, <<":","b","a","d">>}

NameEdits == {<<" ","t","c","-","2"," ">>, <<"t","c","?">>}

DefaultTag == <<"c","l","o","n","e","d","-","f","r","o","m","-">> \o SrcRegion

TagAnswers == {<<>>, DefaultTag, <<"a",":">>}

\* where getToolchainsByName finds toolchains of the name: in the target
\* region and resource group, in the region only, in the group only
SameNames == {{}, {"both"}, {"region", "group"}}

\* validatePrereqsVersions, parseEnvVar, getBearerToken, getAccountId
SetupPrereqs ==
    /\ pc = "prereqs"
    /\ \E ok \in BOOLEAN :
         IF ok THEN StageGoes("cdInstance") /\ UNCHANGED log
         ELSE StageFail("Setup", "prereqs")
    /\ UNCHANGED tfVars
    /\ UNCHANGED <<optVars, prompts, tries, setupVars, importVars, gritVars, applyVars>>

\* getCdInstanceByRegion; without an instance the operator is asked, whatever
\* the force option says
SetupCdInstance ==
    /\ pc = "cdInstance"
    /\ \E r \in {"found", "missing", "throws"} :
         CASE r = "found" -> StageGoes("outputDir") /\ UNCHANGED <<log, prompts>>
           [] r = "missing" ->
                /\ StageGoes("cdConfirm")
                /\ log' = log \cup {Logged("warn", "Setup", "cdInstance")}
                /\ prompts' = prompts \cup {<<"confirm", "cdInstance">>}
           [] OTHER -> StageFail("Setup", "cdInstance") /\ UNCHANGED prompts
    /\ UNCHANGED tfVars
    /\ UNCHANGED <<optVars, tries, setupVars, importVars, gritVars, applyVars>>

ConfirmPcs == {"cdConfirm", "toolsConfirm", "oauthConfirm"}

AfterConfirm(at) ==
    CASE at = "cdConfirm" -> "outputDir"
      [] at = "toolsConfirm" -> "oauth"
      [] OTHER -> "setupEnd"

\* promptUserConfirmation (utils.js 24-44): any answer but the expected one
\* prints the exit message, closes the logger and exits with 1
ConfirmAnswer ==
    /\ pc \in ConfirmPcs
    /\ \E yes \in BOOLEAN :
         IF yes THEN StageGoes(AfterConfirm(pc)) /\ UNCHANGED log
         ELSE /\ log' = log \cup {Logged("print", "cancelled", pc)}
              /\ logStream' = LoggerClosed
              /\ exitCode' = 1
              /\ pc' = "exit"
              /\ UNCHANGED <<started, completed, failed, tempDir>>
    /\ UNCHANGED tfVars
    /\ UNCHANGED <<optVars, prompts, tries, setupVars, importVars, gritVars, applyVars>>

\* the .tf files of the output directory
SetupOutputDir ==
    /\ pc = "outputDir"
    /\ \E hasTf \in BOOLEAN :
         IF hasTf THEN StageFail("Setup", "outputDir")
         ELSE StageGoes("gritFile") /\ UNCHANGED log
    /\ UNCHANGED tfVars
    /\ UNCHANGED <<optVars, prompts, tries, setupVars, importVars, gritVars, applyVars>>


\* the GRIT mapping file is parsed and validateGritUrl is started on every
\* value (copy-toolchain.js 126-143)
SetupGritMapping ==
    /\ pc = "gritFile"
    /\ gritMapping' = MappingOf(gritFile)
    /\ gritPending' = 1..Len(gritFile)
    /\ errorCount' = 0
    /\ StageGoes("gritJoin")
    /\ UNCHANGED tfVars
    /\ UNCHANGED <<optVars, ioVars, gritFile, sameName, dupTcName, tcName, targetTag, importVars,
                   hostedgit, gritIdx, usedGritUrls, gritProjects, gritChecked, applyVars>>

MaxGritErrorsLogged == 5

\* what the catch callback of an invalid value logs
GritValueErrors(i) ==
    IF errorCount < MaxGritErrorsLogged
    THEN {Logged("error", "gritValue", ToString(i))}
    ELSE IF errorCount = MaxGritErrorsLogged
         THEN {Logged("error", "gritValue", "truncated")}
         ELSE {}

\* one of the promises settles; the callbacks run in any order
GritValidateSettle ==
    /\ pc = "gritJoin"
    /\ \E i \in gritPending :
         /\ gritPending' = gritPending \ {i}
         /\ IF validateGritUrl(TargetRegion, gritFile[i][2], TRUE).ok
            THEN UNCHANGED <<errorCount, log>>
            ELSE /\ errorCount' = errorCount + 1
                 /\ log' = log \cup GritValueErrors(i)
    /\ UNCHANGED tfVars
    /\ UNCHANGED <<optVars, ctlVars, prompts, tries, gritFile, sameName, dupTcName, tcName,
                   targetTag, importVars, gritVars, applyVars>>

\* (mutation) main goes on as soon as one of the promises has settled
GritAnySettled == gritPending = {} \/ gritPending # 1..Len(gritFile)

\* await Promise.all(gritPromises): every promise has settled
GritAllSettled == gritPending = {}

\* await Promise.all, then the throw of line 145
GritValidateJoin ==
    /\ pc = "gritJoin"
    /\ GritAllSettled
    /\ IF errorCount > 0
       THEN StageFail("Setup", "gritErrorCount " \o ToString(errorCount))
       ELSE StageGoes("crn") /\ UNCHANGED log
    /\ UNCHANGED tfVars
    /\ UNCHANGED <<optVars, prompts, tries, setupVars, importVars, gritVars, applyVars>>

\* parseToolchainCrn, validateToolchainName and validateTag on the options,
\* getToolchain, and the comparison of the crn with the one fetched: a
\* mismatch is logged and exit(1) is called on the spot
SetupToolchain ==
    /\ pc = "crn"
    /\ \E r \in {"ok", "badCrn", "notFound", "mismatch"} :
         IF r = "badCrn" THEN StageFail("Setup", "crn")
         ELSE IF tcName # <<>> /\ ~validateToolchainName(tcName) THEN StageFail("Setup", "name")
         ELSE IF targetTag # <<>> /\ ~validateTag(targetTag) THEN StageFail("Setup", "tag")
         ELSE IF r = "notFound" THEN StageFail("Setup", "toolchain")
         ELSE IF r = "mismatch"
              THEN /\ log' = log \cup {Logged("error", "Setup", "crnMismatch")}
                   /\ failed' = "Setup"
                   /\ exitCode' = 1
                   /\ pc' = "exit"
                   /\ UNCHANGED <<started, completed, tempDir, logStream>>
         ELSE StageGoes("dupName") /\ UNCHANGED log
    /\ UNCHANGED tfVars
    /\ UNCHANGED <<optVars, prompts, tries, setupVars, importVars, gritVars, applyVars>>

\* the warnings of warnDuplicateName (validate.js 105-121)
DuplicateWarnings(same) ==
    IF "both" \in same THEN {Logged("warn", "sameName", "both")}
    ELSE {Logged("warn", "sameName", k) : k \in same}

\* (mutation) the name is never asked for
NamePromptNever(same) == FALSE

\* the name prompt of validate.js 109-111
NamePromptNeeded(same) == "both" \in same /\ ~skipUserConfirmation

\* the tag prompt of validate.js 123-133
TagPromptNeeded(same, tag) == same # {} /\ tag = <<>> /\ ~skipUserConfirmation

\* getResourceGroups, the default name, and warnDuplicateName up to its
\* first prompt
SetupDuplicateName ==
    /\ pc = "dupName"
    /\ \E rgOk \in BOOLEAN : \E same \in SameNames :
         LET name == IF tcName = <<>> THEN SourceName ELSE tcName
         IN  IF ~rgOk
             THEN /\ StageFail("Setup", "resourceGroup")
                  /\ UNCHANGED <<prompts, sameName, dupTcName, tcName>>
             ELSE /\ tcName' = name
                  /\ dupTcName' = name
                  /\ sameName' = same
                  /\ log' = log \cup DuplicateWarnings(same)
                  /\ IF NamePromptNeeded(same)
                     THEN StageGoes("namePrompt") /\ prompts' = prompts \cup {<<"name", "">>}
                     ELSE IF TagPromptNeeded(same, targetTag)
                     THEN StageGoes("tagPrompt") /\ prompts' = prompts \cup {<<"tag", "">>}
                     ELSE StageGoes("tools") /\ UNCHANGED prompts
    /\ UNCHANGED tfVars
    /\ UNCHANGED <<optVars, tries, gritFile, gritPending, errorCount, targetTag, importVars,
                   gritVars, applyVars>>

\* the operator submits the pre-filled name or an edited one; promptUserInput
\* asks again until validateToolchainName accepts, and returns the answer trimmed
NamePromptAnswer ==
    /\ pc = "namePrompt"
    /\ \E ans \in {dupTcName} \cup NameEdits :
         IF ~validateToolchainName(Trim(ans))
         THEN /\ tries < MaxPromptTries
              /\ tries' = tries + 1
              /\ UNCHANGED <<ctlVars, prompts, tcName>>
         ELSE /\ tries' = 0
              /\ tcName' = Trim(ans)
              /\ IF TagPromptNeeded(sameName, targetTag)
                 THEN StageGoes("tagPrompt") /\ prompts' = prompts \cup {<<"tag", "">>}
                 ELSE StageGoes("tools") /\ UNCHANGED prompts
    /\ UNCHANGED tfVars
    /\ UNCHANGED <<optVars, log, gritFile, gritPending, errorCount, sameName, dupTcName,
                   targetTag, importVars, gritVars, applyVars>>

\* the operator submits the suggested tag, another one or nothing
TagPromptAnswer ==
    /\ pc = "tagPrompt"
    /\ \E ans \in TagAnswers :
         IF ~validateTagOrEmpty(Trim(ans))
         THEN /\ tries < MaxPromptTries
              /\ tries' = tries + 1
              /\ UNCHANGED <<ctlVars, targetTag>>
         ELSE /\ tries' = 0
              /\ targetTag' = Trim(ans)
              /\ StageGoes("tools")
    /\ UNCHANGED tfVars
    /\ UNCHANGED <<optVars, log, prompts, gritFile, gritPending, errorCount, sameName, dupTcName,
                   tcName, importVars, gritVars, applyVars>>


\* validateTools: the tools are fetched and looked over; classic pipelines
\* and wrongly configured tools are put to the operator unless skipPrompt
SetupValidateTools ==
    /\ pc = "tools"
    /\ \E r \in {"ok", "caution", "throws"} :
         CASE r = "ok" -> StageGoes("oauth") /\ UNCHANGED <<log, prompts>>
           [] r = "caution" ->
                /\ log' = log \cup {Logged("warn", "Setup", "tools")}
                /\ IF skipUserConfirmation
                   THEN StageGoes("oauth") /\ UNCHANGED prompts
                   ELSE /\ StageGoes("toolsConfirm")
                        /\ prompts' = prompts \cup {<<"confirm", "tools">>}
           [] OTHER -> StageFail("Setup", "tools") /\ UNCHANGED prompts
    /\ UNCHANGED tfVars
    /\ UNCHANGED <<optVars, tries, setupVars, importVars, gritVars, applyVars>>

\* validateOAuth: git integrations not authorized in the target region
SetupValidateOAuth ==
    /\ pc = "oauth"
    /\ \E r \in {"ok", "caution", "throws"} :
         CASE r = "ok" -> StageGoes("setupEnd") /\ UNCHANGED <<log, prompts>>
           [] r = "caution" ->
                /\ log' = log \cup {Logged("warn", "Setup", "oauth")}
                /\ IF skipUserConfirmation
                   THEN StageGoes("setupEnd") /\ UNCHANGED prompts
                   ELSE /\ StageGoes("oauthConfirm")
                        /\ prompts' = prompts \cup {<<"confirm", "oauth">>}
           [] OTHER -> StageFail("Setup", "oauth") /\ UNCHANGED prompts
    /\ UNCHANGED tfVars
    /\ UNCHANGED <<optVars, tries, setupVars, importVars, gritVars, applyVars>>

\* collect instances of legacy GHE tool integrations (copy-toolchain.js 195-203)
collectGHE(allTools) ==
    SelectSeq(allTools, LAMBDA t : Render(t.tool_type_id) = "github_integrated")

\* collectGHE and the temp folder; the try block of Setup ends
SetupFinish ==
    /\ pc = "setupEnd"
    /\ tempDir' = TRUE
    /\ completed' = Append(completed, "Setup")
    /\ started' = Append(started, "SnapshotImport")
    /\ pc' = "import"
    /\ github_integrated' = collectGHE(tools)
    /\ UNCHANGED <<optVars, failed, exitCode, logStream, ioVars, setupVars, importVars,
                   gritVars, applyVars, drafts, disableTriggers, generated, files, repoToTfName, toolIdToTfName,
                   newConvertedTf, outputDir>>

----------------------------------------------------------------------------
(* importTerraform: the import blocks (copy-toolchain.js 413-546, 735-758) *)

SpecialChars ==
    {"-", "<", ">", "(", ")", "*", "#", "{", "}", "[", "]", "|", "@", "_", " ", ".", "%", "'",
     "\"", ",", "&"}

\* utils.js normalizeName
normalizeName(str) ==
    ToLowerCase([i \in 1..Len(str) |-> IF str[i] \in SpecialChars THEN "_" ELSE str[i]])

\* what getRandChars(4) may return, cut down to two values
RandSuffixes == {<<"a","1","b","2">>, <<"z","z","9","z">>}

\* SUPPORTED_TOOLS_MAP, character by character
ToolResourceChars ==
    [appconfig |-> <<"i","b","m","_","c","d","_","t","o","o","l","c","h","a","i","n","_","t","o","o","l","_","a","p","p","c","o","n","f","i","g">>,
     artifactory |-> <<"i","b","m","_","c","d","_","t","o","o","l","c","h","a","i","n","_","t","o","o","l","_","a","r","t","i","f","a","c","t","o","r","y">>,
     bitbucketgit |-> <<"i","b","m","_","c","d","_","t","o","o","l","c","h","a","i","n","_","t","o","o","l","_","b","i","t","b","u","c","k","e","t","g","i","t">>,
     private_worker |-> <<"i","b","m","_","c","d","_","t","o","o","l","c","h","a","i","n","_","t","o","o","l","_","p","r","i","v","a","t","e","w","o","r","k","e","r">>,
     draservicebroker |-> <<"i","b","m","_","c","d","_","t","o","o","l","c","h","a","i","n","_","t","o","o","l","_","d","e","v","o","p","s","i","n","s","i","g","h","t","s">>,
     eventnotifications |-> <<"i","b","m","_","c","d","_","t","o","o","l","c","h","a","i","n","_","t","o","o","l","_","e","v","e","n","t","n","o","t","i","f","i","c","a","t","i","o","n","s">>,
     hostedgit |-> <<"i","b","m","_","c","d","_","t","o","o","l","c","h","a","i","n","_","t","o","o","l","_","h","o","s","t","e","d","g","i","t">>,
     githubconsolidated |-> <<"i","b","m","_","c","d","_","t","o","o","l","c","h","a","i","n","_","t","o","o","l","_","g","i","t","h","u","b","c","o","n","s","o","l","i","d","a","t","e","d">>,
     cloudobjectstorage |-> <<"i","b","m","_","c","d","_","t","o","o","l","c","h","a","i","n","_","t","o","o","l","_","c","o","s">>,
     gitlab |-> <<"i","b","m","_","c","d","_","t","o","o","l","c","h","a","i","n","_","t","o","o","l","_","g","i","t","l","a","b">>,
     hashicorpvault |-> <<"i","b","m","_","c","d","_","t","o","o","l","c","h","a","i","n","_","t","o","o","l","_","h","a","s","h","i","c","o","r","p","v","a","u","l","t">>,
     jenkins |-> <<"i","b","m","_","c","d","_","t","o","o","l","c","h","a","i","n","_","t","o","o","l","_","j","e","n","k","i","n","s">>,
     jira |-> <<"i","b","m","_","c","d","_","t","o","o","l","c","h","a","i","n","_","t","o","o","l","_","j","i","r","a">>,
     keyprotect |-> <<"i","b","m","_","c","d","_","t","o","o","l","c","h","a","i","n","_","t","o","o","l","_","k","e","y","p","r","o","t","e","c","t">>,
     nexus |-> <<"i","b","m","_","c","d","_","t","o","o","l","c","h","a","i","n","_","t","o","o","l","_","n","e","x","u","s">>,
     customtool |-> <<"i","b","m","_","c","d","_","t","o","o","l","c","h","a","i","n","_","t","o","o","l","_","c","u","s","t","o","m">>,
     pagerduty |-> <<"i","b","m","_","c","d","_","t","o","o","l","c","h","a","i","n","_","t","o","o","l","_","p","a","g","e","r","d","u","t","y">>,
     saucelabs |-> <<"i","b","m","_","c","d","_","t","o","o","l","c","h","a","i","n","_","t","o","o","l","_","s","a","u","c","e","l","a","b","s">>,
     secretsmanager |-> <<"i","b","m","_","c","d","_","t","o","o","l","c","h","a","i","n","_","t","o","o","l","_","s","e","c","r","e","t","s","m","a","n","a","g","e","r">>,
     security_compliance |-> <<"i","b","m","_","c","d","_","t","o","o","l","c","h","a","i","n","_","t","o","o","l","_","s","e","c","u","r","i","t","y","c","o","m","p","l","i","a","n","c","e">>,
     slack |-> <<"i","b","m","_","c","d","_","t","o","o","l","c","h","a","i","n","_","t","o","o","l","_","s","l","a","c","k">>,
     sonarqube |-> <<"i","b","m","_","c","d","_","t","o","o","l","c","h","a","i","n","_","t","o","o","l","_","s","o","n","a","r","q","u","b","e">>,
     pipeline |-> <<"i","b","m","_","c","d","_","t","o","o","l","c","h","a","i","n","_","t","o","o","l","_","p","i","p","e","l","i","n","e">>]

\* SUPPORTED_TOOLS_MAP: tool_type_id -> terraform resource type
SUPPORTED_TOOLS_MAP == [t \in DOMAIN ToolResourceChars |-> Render(ToolResourceChars[t])]

RECURSIVE SplitOn(_, _)
\* s.split(sep) for a separator of one character or more
SplitOn(s, sep) ==
    LET at == {i \in 1..(Len(s) - Len(sep) + 1) : SubSeq(s, i, i + Len(sep) - 1) = sep}
    IN  IF at = {} THEN <<s>>
        ELSE <<SubSeq(s, 1, SetMin(at) - 1)>>
               \o SplitOn(SubSeq(s, SetMin(at) + Len(sep), Len(s)), sep)

RECURSIVE JoinTokens(_)
\* `${a}/${b}/${c}`
JoinTokens(ts) ==
    IF ts = <<>> THEN ""
    ELSE IF Len(ts) = 1 THEN ts[1]
    ELSE ts[1] \o "/" \o JoinTokens(Tail(ts))

\* importBlock, with the random characters as a parameter
importBlock(id, name, resourceType, rand) ==
    LET newName == normalizeName(name) \o <<"_">> \o rand
    IN  [id |-> JoinTokens(id), to |-> resourceType \o "." \o Render(newName),
         name |-> newName, type |-> resourceType, path |-> id]


ToolchainId == "tc1"

\* tool.parameters?.name ?? tool.tool_type_id
ToolNameOf(tool) == IF tool.name = Undefined THEN tool.tool_type_id ELSE tool.name

Entry(path, name, type) == [path |-> path, name |-> name, type |-> type]

\* the properties of one trigger (copy-toolchain.js 532-541)
TriggerPropertyEntries(pid, trig) ==
    [i \in 1..Len(trig.properties) |->
        Entry(<<pid, trig.id, Render(trig.properties[i])>>, trig.properties[i],
              "ibm_cd_tekton_pipeline_trigger_property")]

TriggerEntry(pid, trig) == Entry(<<pid, trig.id>>, trig.name, "ibm_cd_tekton_pipeline_trigger")

RECURSIVE TriggerEntriesPropsLast(_, _)
\* (mutation) the trigger properties are pushed after the last trigger
TriggerEntriesPropsLast(pid, trigs) ==
    IF trigs = <<>> THEN <<>>
    ELSE <<TriggerEntry(pid, trigs[1])>> \o TriggerEntriesPropsLast(pid, Tail(trigs))
             \o TriggerPropertyEntries(pid, trigs[1])

RECURSIVE TriggerEntries(_, _)
\* pipelineData.triggers.forEach: every trigger, then its own properties
TriggerEntries(pid, trigs) ==
    IF trigs = <<>> THEN <<>>
    ELSE <<TriggerEntry(pid, trigs[1])>> \o TriggerPropertyEntries(pid, trigs[1])
             \o TriggerEntries(pid, Tail(trigs))

\* the blocks of a tekton pipeline, in the order they are pushed
PipelineEntries(tool) ==
    LET pd == tool.pipeline
    IN  <<Entry(<<pd.id>>, ToolNameOf(tool), "ibm_cd_tekton_pipeline")>>
        \o [i \in 1..Len(pd.definitions) |->
              Entry(<<pd.id, pd.definitions[i]>>, <<"d","e","f","i","n","i","t","i","o","n">>,
                    "ibm_cd_tekton_pipeline_definition")]
        \o [i \in 1..Len(pd.properties) |->
              Entry(<<pd.id, Render(pd.properties[i])>>, pd.properties[i],
                    "ibm_cd_tekton_pipeline_property")]
        \o TriggerEntries(pd.id, pd.triggers)

IsSupported(tool) == Render(tool.tool_type_id) \in DOMAIN SUPPORTED_TOOLS_MAP

IsTekton(tool) == Render(tool.tool_type_id) = "pipeline" /\ tool.tekton

\* the block of a supported tool
SupportedEntries(tool) ==
    IF IsSupported(tool)
    THEN <<Entry(<<ToolchainId, tool.id>>, ToolNameOf(tool),
                 SUPPORTED_TOOLS_MAP[Render(tool.tool_type_id)])>>
    ELSE <<>>

\* one importBlock call per entry, each with its own random characters
BlocksOf(entries, rands) ==
    [i \in 1..Len(entries) |->
        importBlock(entries[i].path, entries[i].name, entries[i].type, rands[i])]

\* importBlocksToTf: one import { id to } per block, in list order
importBlocksToTf(blocks) == [i \in 1..Len(blocks) |-> [id |-> blocks[i].id, to |-> blocks[i].to]]

\* VAULT_REGEX[0]: {vault::...} anywhere in the value, in any letter case;
\* the characters between :: and } are any but a line break
VaultReference(v) ==
    \E i \in 1..Len(v) : \E j \in (i + 8)..Len(v) :
        /\ v[i] = "{"
        /\ ToLowerCase(SubSeq(v, i + 1, i + 7)) = <<"v","a","u","l","t",":",":">>
        /\ v[j] = "}"
        /\ \A k \in (i + 8)..(j - 1) : v[k] \notin {"\n", "\r"}

IsHex(c) == c \in DigitChars \cup {"a","b","c","d","e","f","A","B","C","D","E","F"}

\* 8-4-4-4-12 hexadecimal digits
IsUuid(s) ==
    LET g == Split(s, "-")
    IN  /\ Len(g) = 5
        /\ \A i \in 1..5 : Len(g[i]) = <<8, 4, 4, 4, 12>>[i] /\ \A k \in 1..Len(g[i]) : IsHex(g[i][k])

\* VAULT_REGEX[1]: the whole value is the CRN of a secrets-manager secret
CrnReference(v) ==
    LET f == Split(v, ":")
    IN  /\ Len(f) = 10
        /\ ToLowerCase(f[1]) = <<"c","r","n">>
        /\ ToLowerCase(f[2]) = <<"v","1">>
        /\ ToLowerCase(f[3]) \in {<<"b","l","u","e","m","i","x">>, <<"s","t","a","g","i","n","g">>}
        /\ ToLowerCase(f[4]) = <<"p","u","b","l","i","c">>
        /\ ToLowerCase(f[5]) = <<"s","e","c","r","e","t","s","-","m","a","n","a","g","e","r">>
        /\ f[6] # <<>> /\ IsAlnum(f[6][Len(f[6])])
        /\ \A k \in 1..Len(f[6]) : IsAlnum(f[6][k]) \/ f[6][k] = "-"
        /\ Len(f[7]) > 2 /\ ToLowerCase(SubSeq(f[7], 1, 2)) = <<"a","/">>
        /\ \A k \in 3..Len(f[7]) : IsHex(f[7][k])
        /\ IsUuid(f[8])
        /\ ToLowerCase(f[9]) = <<"s","e","c","r","e","t">>
        /\ IsUuid(f[10])

\* VAULT_REGEX[2]: ref://secrets-manager. anywhere in the value
RefReference(v) == Includes(ToLowerCase(v), <<"r","e","f",":","/","/","s","e","c","r","e","t","s","-","m","a","n","a","g","e","r",".">>)

\* isSecretReference: one of VAULT_REGEX matches
isSecretReference(value) == VaultReference(value) \/ CrnReference(value) \/ RefReference(value)

NoPrereq == [key |-> "", values |-> {}]

SecretKey(key, tfKey, prereq, required) ==
    [key |-> key, tfKey |-> tfKey, prereq |-> prereq, required |-> required]

\* SECRET_KEYS_MAP; a key without tfKey has tfKey "undefined"
SECRET_KEYS_MAP ==
    [artifactory |-> <<SecretKey("token", "token", NoPrereq, FALSE)>>,
     cloudobjectstorage |->
        <<SecretKey("cos_api_key", "cos_api_key", [key |-> "auth_type", values |-> {"apikey"}], FALSE),
          SecretKey("hmac_access_key_id", "hmac_access_key_id", [key |-> "auth_type", values |-> {"hmac"}], FALSE),
          SecretKey("hmac_secret_access_key", "hmac_secret_access_key", [key |-> "auth_type", values |-> {"hmac"}], FALSE)>>,
     github_integrated |-> <<SecretKey("api_token", "undefined", NoPrereq, FALSE)>>,
     githubconsolidated |-> <<SecretKey("api_token", "api_token", [key |-> "auth_type", values |-> {"pat"}], FALSE)>>,
     gitlab |-> <<SecretKey("api_token", "api_token", [key |-> "auth_type", values |-> {"pat"}], FALSE)>>,
     hashicorpvault |->
        <<SecretKey("token", "token", [key |-> "authentication_method", values |-> {"github", "token"}], FALSE),
          SecretKey("role_id", "role_id", [key |-> "authentication_method", values |-> {"approle"}], FALSE),
          SecretKey("secret_id", "secret_id", [key |-> "authentication_method", values |-> {"approle"}], FALSE),
          SecretKey("password", "password", [key |-> "authentication_method", values |-> {"userpass"}], FALSE)>>,
     hostedgit |-> <<SecretKey("api_token", "api_token", [key |-> "auth_type", values |-> {"pat"}], FALSE)>>,
     jenkins |-> <<SecretKey("api_token", "api_token", NoPrereq, FALSE)>>,
     jira |-> <<SecretKey("password", "api_token", NoPrereq, FALSE)>>,
     nexus |-> <<SecretKey("token", "token", NoPrereq, FALSE)>>,
     pagerduty |->
        <<SecretKey("api_key", "api_key", [key |-> "key_type", values |-> {"api"}], FALSE),
          SecretKey("service_key", "service_key", [key |-> "key_type", values |-> {"service"}], FALSE)>>,
     private_worker |-> <<SecretKey("workerQueueCredentials", "worker_queue_credentials", NoPrereq, TRUE)>>,
     saucelabs |-> <<SecretKey("key", "access_key", NoPrereq, TRUE)>>,
     security_compliance |->
        <<SecretKey("scc_api_key", "scc_api_key", [key |-> "use_profile_attachment", values |-> {"enabled"}], FALSE)>>,
     slack |-> <<SecretKey("api_token", "webhook", NoPrereq, TRUE)>>,
     sonarqube |-> <<SecretKey("user_password", "user_password", NoPrereq, FALSE)>>]

\* tool.parameters[key]; a missing parameter reads as undefined, which a
\* regular expression tests as the text "undefined"
ParameterOf(tool, key) ==
    IF key \in DOMAIN tool.parameters THEN tool.parameters[key] ELSE UndefinedKey

\* prereq && !prereq.values.includes(tool.parameters[prereq.key])
MissingPrereq(tool, e) ==
    e.prereq # NoPrereq /\ Render(ParameterOf(tool, e.prereq.key)) \notin e.prereq.values

\* (mutation) only the keys terraform requires are recorded
RecordedRequiredOnly(e) == e.required

\* required || prereq
Recorded(e) == e.required \/ e.prereq # NoPrereq

\* isCompact ? 'resources.tf' : the resource type of the tool after 'ibm_', with .tf
NonSecretFileName(type) ==
    IF isCompact THEN "resources.tf"
    ELSE Render(SplitOn(ToolResourceChars[type], <<"i","b","m","_">>)[2]) \o ".tf"

\* what the forEach over SECRET_KEYS_MAP[tool.tool_type_id] pushes to
\* nonSecretRefs for the tool whose block is named blockName
NonSecretRefsOf(tool, blockName) ==
    LET type == Render(tool.tool_type_id)
        keys == IF IsSupported(tool) /\ type \in DOMAIN SECRET_KEYS_MAP
                THEN SECRET_KEYS_MAP[type] ELSE <<>>
        push == SelectSeq(keys, LAMBDA e :
                    /\ ~MissingPrereq(tool, e)
                    /\ ~isSecretReference(ParameterOf(tool, e.key))
                    /\ Recorded(e))
    IN  [i \in 1..Len(push) |->
            [resource_name |-> blockName, property_name |-> push[i].tfKey,
             file_name |-> NonSecretFileName(type)]]

\* initProviderFile, runTerraformInit, then the toolchain block and the
\* request for the tools
ImportStart ==
    /\ pc = "import"
    /\ \E r \in {"ok", "initFails", "toolsFail"} : \E rand \in RandSuffixes :
         IF r = "ok"
         THEN /\ importBlocks' = <<importBlock(<<ToolchainId>>, tcName, "ibm_cd_toolchain", rand)>>
              /\ toolIdx' = 1
              /\ StageGoes("importTool")
              /\ UNCHANGED log
         ELSE /\ StageFail("SnapshotImport", r)
              /\ UNCHANGED <<importBlocks, toolIdx>>
    /\ UNCHANGED tfVars
    /\ UNCHANGED <<optVars, prompts, tries, setupVars, tools, importFile, nonSecretRefs, gritVars, applyVars>>

\* one pass of the loop over allTools.tools; getPipelineData may fail after
\* the block of the tool has been pushed
ImportTool ==
    /\ pc = "importTool"
    /\ toolIdx <= Len(tools)
    /\ LET tool    == tools[toolIdx]
           entries == SupportedEntries(tool) \o (IF IsTekton(tool) THEN PipelineEntries(tool) ELSE <<>>)
       IN  \E pdOk \in {ok \in BOOLEAN : ok \/ IsTekton(tool)} :
           \E rands \in [1..Len(entries) -> RandSuffixes] :
             /\ nonSecretRefs' = nonSecretRefs \o
                    (IF IsSupported(tool)
                     THEN NonSecretRefsOf(tool, BlocksOf(entries, rands)[1].name) ELSE <<>>)
             /\ IF pdOk
                THEN /\ importBlocks' = importBlocks \o BlocksOf(entries, rands)
                     /\ toolIdx' = toolIdx + 1
                     /\ UNCHANGED <<ctlVars, log>>
                ELSE /\ importBlocks' = importBlocks \o BlocksOf(SupportedEntries(tool), rands)
                     /\ StageFail("SnapshotImport", "pipelineData")
                     /\ UNCHANGED toolIdx
    /\ UNCHANGED tfVars
    /\ UNCHANGED <<optVars, prompts, tries, setupVars, tools, importFile, gritVars, applyVars>>

\* a JavaScript object is a function from its keys to its values
Has(o, k) == k \in DOMAIN o

\* o[k] = v
Put(o, k, v) == [x \in DOMAIN o \cup {k} |-> IF x = k THEN v ELSE o[x]]

\* the object without its key k
Without(o, k) == [x \in DOMAIN o \ {k} |-> o[x]]

\* the empty object
NoKeys == [x \in {} |-> x]

\* the files of the model
FileToolchain == "cd_toolchain.tf"
FileTrigger == "cd_tekton_pipeline_trigger.tf"
FileDefinition == "cd_tekton_pipeline_definition.tf"
FileGithub == "cd_toolchain_tool_githubconsolidated.tf"
FileHostedgit == "cd_toolchain_tool_hostedgit.tf"
FileProvider == "provider.tf"
FileOutput == "output.tf"
FilePipelineProperty == "cd_tekton_pipeline_property.tf"
FileTriggerProperty == "cd_tekton_pipeline_trigger_property.tf"
FileResources == "resources.tf"

\* readDirPromise, filtered to the cd_ files; the hosted-git file, handled
\* first, is the document of the remediation loop
FileOrder ==
    <<FileDefinition, FilePipelineProperty, FileTrigger, FileTriggerProperty, FileToolchain,
      FileGithub>>

\* the files of the loop (terraform.js 91-107): resources.tf alone in compact
\* mode
FilesOf(dir) ==
    IF isCompact THEN <<FileResources>> ELSE SelectSeq(FileOrder, LAMBDA f : f \in DOMAIN dir)

\* `ibm_${fileName.split('.tf')[0]}`
ResourceNameOf(fileName) ==
    CASE fileName = FileToolchain -> "ibm_cd_toolchain"
      [] fileName = FileTrigger -> "ibm_cd_tekton_pipeline_trigger"
      [] fileName = FileDefinition -> "ibm_cd_tekton_pipeline_definition"
      [] fileName = FileGithub -> "ibm_cd_toolchain_tool_githubconsolidated"
      [] fileName = FileHostedgit -> "ibm_cd_toolchain_tool_hostedgit"
      [] fileName = FilePipelineProperty -> "ibm_cd_tekton_pipeline_property"
      [] fileName = FileTriggerProperty -> "ibm_cd_tekton_pipeline_trigger_property"
      [] fileName = FileResources -> "ibm_resources"

----------------------------------------------------------------------------
(* importTerraform: the work on the draft (copy-toolchain.js 570-621) *)

\* the values of a parsed document: null, undefined, a string, a list, an
\* object (a function from its keys to values)
JNull == [t |-> "null"]

JUndef == [t |-> "undefined"]

JStr(s) == [t |-> "str", v |-> s]

JList(s) == [t |-> "list", v |-> s]

JObj(f) == [t |-> "obj", v |-> f]

IsNullish(x) == x.t \in {"null", "undefined"}

\* x[k] where x is neither null nor undefined; "0" is the first place of a list
Prop(x, k) ==
    CASE x.t = "list" -> IF k = "0" /\ Len(x.v) > 0 THEN x.v[1] ELSE JUndef
      [] x.t = "obj" -> IF k \in DOMAIN x.v THEN x.v[k] ELSE JUndef
      [] OTHER -> JUndef

\* x[p1][p2]...: reading a property of null or undefined throws
RECURSIVE Path(_, _)
Path(x, p) ==
    IF p = <<>> THEN [threw |-> FALSE, val |-> x]
    ELSE IF IsNullish(x) THEN [threw |-> TRUE, val |-> JUndef]
    ELSE Path(Prop(x, Head(p)), Tail(p))

\* x with val at x[p1][p2]..., a place that exists
RECURSIVE SetPath(_, _, _)
SetPath(x, p, val) ==
    IF p = <<>> THEN val
    ELSE IF x.t = "list"
         THEN JList([i \in 1..Len(x.v) |-> IF i = 1 THEN SetPath(x.v[1], Tail(p), val) ELSE x.v[i]])
         ELSE JObj([k \in DOMAIN x.v |->
                      IF k = Head(p) THEN SetPath(x.v[k], Tail(p), val) ELSE x.v[k]])

\* delete x[k]
Delete(x, k) == JObj(Without(x.v, k))

\* the object without its keys whose value is null
DeleteNulls(x) == JObj([k \in {j \in DOMAIN x.v : x.v[j] # JNull} |-> x.v[k]])

\* Object.keys(x).length for a list or an object, -1 where Object.keys throws
KeyCount(x) ==
    CASE x.t = "obj" -> Cardinality(DOMAIN x.v)
      [] x.t = "list" -> Len(x.v)
      [] OTHER -> -1

PathTool == <<"source", "0", "properties", "0", "tool", "0">>
PathProperties == <<"source", "0", "properties", "0">>
PathWorkerId == <<"worker", "0", "id">>
PathParameters == <<"parameters", "0">>

\* [k]: v[0], the collapse of copy-toolchain.js 576 and terraform.js 151
Collapse(v) == Prop(v, "0")

\* remove empty tool (copy-toolchain.js 579-585)
RemoveEmptyTool(r) ==
    LET tool == Path(r, PathTool)
    IN  IF ~tool.threw /\ KeyCount(tool.val) = 0
        THEN SetPath(r, PathProperties, Delete(Path(r, PathProperties).val, "tool"))
        ELSE r

\* handle missing worker (copy-toolchain.js 588-594)
RemoveNullWorker(r) ==
    LET id == Path(r, PathWorkerId)
    IN  IF ~id.threw /\ id.val = JNull THEN Delete(r, "worker") ELSE r

\* ignore null values in the object at the path p (copy-toolchain.js
\* 602-610 and 613-621)
RemoveNullsAt(r, p) ==
    LET o == Path(r, p)
    IN  IF ~o.threw /\ KeyCount(o.val) > 0 /\ o.val.t = "obj"
        THEN SetPath(r, p, DeleteNulls(o.val))
        ELSE r

\* one turn of the inner loop, up to line 621, on the resource v:
\* Object.entries(v[0]) at line 597 throws when v[0] is undefined
NormalizeResource(v) ==
    LET r == Collapse(v)
    IN  IF IsNullish(r) THEN [threw |-> TRUE, val |-> r]
        ELSE IF r.t # "obj" THEN [threw |-> FALSE, val |-> r]
        ELSE [threw |-> FALSE,
              val |-> RemoveNullsAt(RemoveNullsAt(DeleteNulls(RemoveNullWorker(RemoveEmptyTool(r))),
                                                  PathParameters),
                                    PathProperties)]

\* the loops of copy-toolchain.js 574-621 over a document: resource type ->
\* resource name -> resource
NormalizeDraft(doc) ==
    [threw |-> \E key \in DOMAIN doc : \E k \in DOMAIN doc[key] : NormalizeResource(doc[key][k]).threw,
     doc |-> [key \in DOMAIN doc |-> [k \in DOMAIN doc[key] |-> NormalizeResource(doc[key][k]).val]]]

\* the attributes a resource of the draft may have
DraftWorkers ==
    {NoKeys, [worker |-> JList(<<JObj([id |-> JNull])>>)],
     [worker |-> JList(<<JObj([id |-> JStr("public")])>>)]}

DraftParameters ==
    {NoKeys, [parameters |-> JList(<<JObj(NoKeys)>>)],
     [parameters |-> JList(<<JObj([label |-> JNull, name |-> JStr("n")])>>)]}

DraftSources ==
    {NoKeys,
     [source |-> JList(<<JObj([type |-> JStr("git"),
                               properties |-> JList(<<JObj([url |-> JStr("u"),
                                                            tool |-> JList(<<JObj(NoKeys)>>)])>>)])>>)],
     [source |-> JList(<<JObj([type |-> JStr("git"),
                               properties |-> JList(<<JObj([url |-> JStr("u"), pattern |-> JNull,
                                                            tool |-> JList(<<JObj([id |-> JStr("g1")])>>)])>>)])>>)],
     [source |-> JList(<<JObj([type |-> JStr("git"),
                               properties |-> JList(<<JObj([branch |-> JNull])>>)])>>)]}

DraftNames == {[name |-> JStr("t")], [name |-> JStr("t"), cron |-> JNull]}

\* the documents tfToJson gives for a draft: every resource inside a list
DraftDocs ==
    {[ibm_cd_tekton_pipeline_trigger |-> NoKeys]} \cup
    {[ibm_cd_tekton_pipeline_trigger |-> [t1 |-> JList(<<JObj(n @@ w @@ p @@ s)>>)]] :
        n \in DraftNames, w \in DraftWorkers, p \in DraftParameters, s \in DraftSources}

MaxPasses == 2

\* the normalization is applied to what the pass before has left
NormalizePass ==
    /\ drafts # <<>>
    /\ Len(drafts) <= MaxPasses
    /\ ~drafts[Len(drafts)].threw
    /\ drafts' = Append(drafts, NormalizeDraft(drafts[Len(drafts)].doc))
    /\ UNCHANGED <<optVars, ctlVars, ioVars, setupVars, importVars, gritVars, applyVars,
                   disableTriggers, github_integrated, generated, files, repoToTfName, toolIdToTfName,
                   newConvertedTf, outputDir>>

\* the resources of the generated files as setupTerraformFiles holds them
\* after [k]: v[0]; source stands for source[0].properties[0]
TriggerScm == [type |-> "scm", enabled |-> TRUE, source |-> [url |-> UrlTorTeamProj]]

\* what the import of a whole run leaves in TEMP_DIR/generated
SpecGenerated ==
    [f \in {FileToolchain, FileTrigger} |->
        IF f = FileToolchain THEN [k \in {ToolchainId} |-> [name |-> SourceName]]
        ELSE [k \in {"t1"} |-> TriggerScm]]

----------------------------------------------------------------------------

\* main after the import: the warning when nonSecretRefs is not empty, and
\* logger.table(nonSecretRefs), one row per record
NonSecretRefsTable ==
    (IF Len(nonSecretRefs) > 0 THEN {Logged("warn", "SnapshotImport", "nonSecretRefs")} ELSE {})
    \cup {Logged("table", Render(nonSecretRefs[i].resource_name),
                  nonSecretRefs[i].property_name \o " " \o nonSecretRefs[i].file_name)
            : i \in 1..Len(nonSecretRefs)}

\* importBlocksToTf, terraform plan -generate-config-out and the work on the
\* draft; without a draft the import fails;
\* then main shows what importTerraform returned
ImportWrite ==
    /\ pc = "importTool"
    /\ toolIdx > Len(tools)
    /\ importFile' = importBlocksToTf(importBlocks)
    /\ \E draftOk \in BOOLEAN :
         IF draftOk
         THEN /\ generated' = SpecGenerated
              /\ StageDone("SnapshotImport", "compose")
              /\ log' = log \cup NonSecretRefsTable
         ELSE /\ StageFail("SnapshotImport", "draft")
              /\ UNCHANGED generated
    /\ UNCHANGED <<drafts, disableTriggers, github_integrated, files, repoToTfName, toolIdToTfName, newConvertedTf,
                   outputDir>>
    /\ UNCHANGED <<optVars, prompts, tries, setupVars, tools, toolIdx, importBlocks,
                   nonSecretRefs, gritVars, applyVars>>


----------------------------------------------------------------------------
(* main: ExportCompose around the remediation loop, Apply, the final cleanup *)

\* the hosted-git resources a generated document may hold in a whole run
SpecDocs == {d \in HostedgitDocs : Len(d) <= 1 /\ \A i \in 1..Len(d) : d[i].url0 \in {UrlTorTeamProj, UrlNoScheme}}

\* the repositories of the legacy GHE tools, and one no tool points at
UrlGheRepo == <<"h","t","t","p","s",":","/","/","g","i","t","h","u","b",".","i","b","m",".","c","o","m","/","o","r","g","/","r","e","p","o">>
UrlGheOther == <<"h","t","t","p","s",":","/","/","g","i","t","h","u","b",".","i","b","m",".","c","o","m","/","o","r","g","/","o","t","h","e","r">>

\* a legacy tool as the toolchain API returns it
GheTool(id, url, auth, token) ==
    [id |-> id, name |-> "ghe-" \o id,
     parameters |-> [repo_url |-> url, auth_type |-> auth, enable_traceability |-> FALSE,
                     integration_owner |-> "owner", has_issues |-> TRUE] @@ token]

GheTokens == {NoKeys, [api_token |-> "ghp_secret"]}

GheAuthTypes == {"pat", "oauth"}

\* `converted--githubconsolidated_${getRandChars(4)}`
ConvertedTfName(rand) == "converted--githubconsolidated_" \o Render(rand)

\* (mutation) the token is copied whatever the auth type is
ConvertedTokenAlways(parameters) ==
    IF Has(parameters, "api_token") THEN [api_token |-> parameters.api_token] ELSE NoKeys

\* ...(t['parameters']['auth_type'] === 'pat' ? { api_token: ... } : {});
\* a key whose value is undefined is not written by JSON.stringify
ConvertedToken(parameters) ==
    IF parameters.auth_type = "pat" /\ Has(parameters, "api_token")
    THEN [api_token |-> parameters.api_token]
    ELSE NoKeys

\* newConvertedTf[tfName] for the legacy tool t (terraform.js 122-140)
ConvertedResource(t) ==
    [toolchain_id |-> "${ibm_cd_toolchain." \o ToolchainId \o ".id}",
     name |-> t.name,
     initialization |-> [auto_init |-> "false", blind_connection |-> "false",
                         git_id |-> "integrated", private_repo |-> "false",
                         repo_url |-> t.parameters.repo_url, type |-> "link"],
     parameters |-> ConvertedToken(t.parameters) @@
                    [auth_type |-> t.parameters.auth_type,
                     enable_traceability |-> t.parameters.enable_traceability,
                     integration_owner |-> t.parameters.integration_owner,
                     toolchain_issues_enabled |-> t.parameters.has_issues]]

\* the forEach of terraform.js 116-141 over the first n tools; rand[i] is
\* what getRandChars gives for the i-th tool, a later tool overwrites an
\* earlier one under the same key
RECURSIVE RepoToTfNameOf(_, _, _)
RepoToTfNameOf(ghe, rand, n) ==
    IF n = 0 THEN NoKeys
    ELSE Put(RepoToTfNameOf(ghe, rand, n - 1), ghe[n].parameters.repo_url,
             ConvertedTfName(rand[n]))

RECURSIVE ToolIdToTfNameOf(_, _, _)
ToolIdToTfNameOf(ghe, rand, n) ==
    IF n = 0 THEN NoKeys
    ELSE Put(ToolIdToTfNameOf(ghe, rand, n - 1), ghe[n].id, ConvertedTfName(rand[n]))

RECURSIVE NewConvertedTfOf(_, _, _)
NewConvertedTfOf(ghe, rand, n) ==
    IF n = 0 THEN NoKeys
    ELSE Put(NewConvertedTfOf(ghe, rand, n - 1), ConvertedTfName(rand[n]),
             ConvertedResource(ghe[n]))

hasGHE == Len(github_integrated) > 0

\* (mutation) the manual triggers are disabled with the others
DisableTriggerAll(v) == Put(v, "enabled", FALSE)

\* by default, disable triggers (terraform.js 236-241)
DisableTrigger(v) ==
    IF Has(v, "type") /\ v.type = "manual" THEN v ELSE Put(v, "enabled", FALSE)

\* v['source'][0]['properties'][0]['url'] throws when there is no source
SourceThrows(v) == ~Has(v, "source")

SourceUrl(v) == IF Has(v.source, "url") THEN v.source.url ELSE Undefined

\* a value is truthy: no undefined, no empty string (an array always is)
Truthy(x) == x # Undefined /\ x # <<>>

\* `ibm_cd_toolchain_tool_githubconsolidated.${repoToTfName[thisUrl]}`
DependsOnRef(thisUrl) ==
    "ibm_cd_toolchain_tool_githubconsolidated." \o
        (IF thisUrl \in DOMAIN repoToTfName THEN repoToTfName[thisUrl] ELSE "undefined")

\* (mutation) depends_on is set whether the resource has one or not
InjectDependsOnAlways(v) ==
    IF SourceThrows(v) THEN v
    ELSE IF Truthy(SourceUrl(v)) THEN Put(v, "depends_on", <<DependsOnRef(SourceUrl(v))>>)
         ELSE v

\* set depends_on for references to legacy GHE integrations (terraform.js
\* 245-255 for a trigger, 279-289 for a definition): the body of the loop
InjectDependsOn(v) ==
    IF SourceThrows(v) THEN v
    ELSE IF ~Has(v, "depends_on") /\ Truthy(SourceUrl(v))
         THEN Put(v, "depends_on", <<DependsOnRef(SourceUrl(v))>>)
         ELSE v

\* update GRIT urls (terraform.js 260-272, 294-306): the body of the loop
UpdateGritUrl(v) ==
    IF SourceThrows(v) THEN v
    ELSE IF SourceUrl(v) \in DOMAIN gritMapping /\ Truthy(gritMapping[SourceUrl(v)])
         THEN Put(v, "source", Put(v.source, "url", gritMapping[SourceUrl(v)]))
         ELSE v

\* the tags with the target tag, each once, inside a list of its own
RECURSIVE Uniq(_)
Uniq(s) ==
    IF s = <<>> THEN <<>>
    ELSE LET r == Uniq(SubSeq(s, 1, Len(s) - 1))
         IN  IF \E i \in 1..Len(r) : r[i] = s[Len(s)] THEN r ELSE Append(r, s[Len(s)])

\* terraform.js 225-231, the target resource group left out
RewriteToolchain(v) ==
    LET tagged == IF targetTag # <<>>
                  THEN Put(v, "tags", <<Uniq(Append(IF Has(v, "tags") THEN v.tags ELSE <<>>,
                                                    targetTag))>>)
                  ELSE v
    IN  IF tcName # <<>> THEN Put(tagged, "name", tcName) ELSE tagged

\* the rewrites of one resource of a trigger file and of a definition file
RewriteTrigger(v) ==
    UpdateGritUrl(IF hasGHE
                  THEN InjectDependsOn(IF disableTriggers THEN DisableTrigger(v) ELSE v)
                  ELSE IF disableTriggers THEN DisableTrigger(v) ELSE v)

RewriteDefinition(v) == UpdateGritUrl(IF hasGHE THEN InjectDependsOn(v) ELSE v)

\* if (isCompact || resourceName === type)
Applies(fileName, type) == isCompact \/ ResourceNameOf(fileName) = type

\* newTfFileObj['resource'] of a file: the resources by type; a file of the
\* split mode holds the one type it is named after (copy-toolchain.js 712-720)
DocOf(fileName, res) ==
    IF isCompact THEN res ELSE [ty \in {ResourceNameOf(fileName)} |-> res]

\* terraform.js 224-232
PassToolchain(fileName, doc) ==
    IF Applies(fileName, "ibm_cd_toolchain")
    THEN Put(doc, "ibm_cd_toolchain",
             [k \in DOMAIN doc["ibm_cd_toolchain"] |->
                 IF k = ToolchainId THEN RewriteToolchain(doc["ibm_cd_toolchain"][k])
                 ELSE doc["ibm_cd_toolchain"][k]])
    ELSE doc

\* terraform.js 234-274
PassTrigger(fileName, doc) ==
    IF Applies(fileName, "ibm_cd_tekton_pipeline_trigger")
       /\ Has(doc, "ibm_cd_tekton_pipeline_trigger")
    THEN Put(doc, "ibm_cd_tekton_pipeline_trigger",
             [k \in DOMAIN doc["ibm_cd_tekton_pipeline_trigger"] |->
                 RewriteTrigger(doc["ibm_cd_tekton_pipeline_trigger"][k])])
    ELSE doc

\* terraform.js 276-308
PassDefinition(fileName, doc) ==
    IF Applies(fileName, "ibm_cd_tekton_pipeline_definition")
       /\ Has(doc, "ibm_cd_tekton_pipeline_definition")
    THEN Put(doc, "ibm_cd_tekton_pipeline_definition",
             [k \in DOMAIN doc["ibm_cd_tekton_pipeline_definition"] |->
                 RewriteDefinition(doc["ibm_cd_tekton_pipeline_definition"][k])])
    ELSE doc

PropertyTypes == <<"ibm_cd_tekton_pipeline_property", "ibm_cd_tekton_pipeline_trigger_property">>

\* (mutation) the id is replaced by the name and nothing else
ConvertedToolIdRefBare(thisTfName) == thisTfName

\* `${ibm_cd_toolchain_tool_githubconsolidated.${thisTfName}.tool_id}`
ConvertedToolIdRef(thisTfName) ==
    "${ibm_cd_toolchain_tool_githubconsolidated." \o thisTfName \o ".tool_id}"

\* add references to converted GHE integrations (terraform.js 313-325,
\* 333-345): the body of the loop
RewriteProperty(v) ==
    IF Has(v, "type") /\ v.type = "integration" /\ Has(v, "value")
       /\ v.value \in DOMAIN toolIdToTfName
    THEN Put(v, "value", ConvertedToolIdRef(toolIdToTfName[v.value]))
    ELSE v

\* Object.entries(newTfFileObj['resource'][type]) of terraform.js 312 and
\* 332 throws a TypeError when the document has no resource of the type
PropertyThrows(fileName, doc) ==
    \E i \in 1..Len(PropertyTypes) : Applies(fileName, PropertyTypes[i]) /\ ~Has(doc, PropertyTypes[i])

\* terraform.js 311-348, for a document that has the types
PassProperty(fileName, doc) ==
    [ty \in DOMAIN doc |->
        IF (\E i \in 1..Len(PropertyTypes) : PropertyTypes[i] = ty) /\ Applies(fileName, ty)
        THEN [k \in DOMAIN doc[ty] |-> RewriteProperty(doc[ty][k])]
        ELSE doc[ty]]

\* terraform.js 350-357
PassGithub(fileName, doc) ==
    IF Applies(fileName, "ibm_cd_toolchain_tool_githubconsolidated") /\ hasGHE
    THEN Put(doc, "ibm_cd_toolchain_tool_githubconsolidated",
             newConvertedTf @@ (IF Has(doc, "ibm_cd_toolchain_tool_githubconsolidated")
                                THEN doc["ibm_cd_toolchain_tool_githubconsolidated"]
                                ELSE NoKeys))
    ELSE doc

\* one turn of the loop over the files throws (terraform.js 144-364, the
\* hosted-git resources apart)
RewriteThrows(fileName, res) == PropertyThrows(fileName, DocOf(fileName, res))

\* one turn of the loop over the files that does not throw: what is written
\* for the file
RewriteFile(fileName, res) ==
    LET doc == PassGithub(fileName,
                 PassProperty(fileName,
                   PassDefinition(fileName,
                     PassTrigger(fileName,
                       PassToolchain(fileName, DocOf(fileName, res))))))
    IN  IF isCompact THEN doc ELSE doc[ResourceNameOf(fileName)]

\* the output directory, the generated files are read, the converted
\* resources are made: setupTerraformFiles reaches the loop over the
\* hosted-git resources, provider.tf and output.tf are on their way
ComposeStart ==
    /\ pc = "compose"
    /\ \E ok \in BOOLEAN : \E doc \in SpecDocs :
       \E rand \in [1..Len(github_integrated) -> RandSuffixes] :
         IF ok
         THEN /\ hostedgit' = doc
              /\ usedGritUrls' = Range(gritMapping)
              /\ gritIdx' = 1
              /\ gritChecked' = {}
              /\ repoToTfName' = RepoToTfNameOf(github_integrated, rand, Len(github_integrated))
              /\ toolIdToTfName' = ToolIdToTfNameOf(github_integrated, rand, Len(github_integrated))
              /\ newConvertedTf' = NewConvertedTfOf(github_integrated, rand, Len(github_integrated))
              /\ files' = FilesOf(generated)
              /\ outputDir' = [f \in {FileProvider, FileOutput} |-> NoKeys]
              /\ StageGoes("grit")
              /\ UNCHANGED log
         ELSE /\ StageFail("ExportCompose", "read")
              /\ UNCHANGED <<hostedgit, usedGritUrls, gritIdx, gritChecked, repoToTfName, toolIdToTfName,
                             newConvertedTf, files, outputDir>>
    /\ UNCHANGED <<optVars, prompts, tries, setupVars, importVars, gritMapping, gritProjects,
                   applyVars, drafts, disableTriggers, github_integrated, generated>>

\* (mutation) the files are rewritten whether the hosted-git resources have
\* been gone through or not
HostedgitUnfinishedNever == FALSE

\* the loop over the hosted-git resources (terraform.js 168-220), which comes
\* first in the file that has them, has not ended
HostedgitUnfinished == gritIdx <= Len(hostedgit)

\* the document of resources.tf is written with its hosted-git resources
WithHostedgit(doc) ==
    IF isCompact /\ hostedgit # <<>>
    THEN Put(doc, "ibm_cd_toolchain_tool_hostedgit", hostedgit)
    ELSE doc

\* one more file of the loop is rewritten and written, or the rewrite throws
\* and setupTerraformFiles is rejected
ComposeFile ==
    /\ pc = "grit"
    /\ ~HostedgitUnfinished
    /\ files # <<>>
    /\ IF RewriteThrows(Head(files), generated[Head(files)])
       THEN /\ StageFail("ExportCompose", "rewrite")
            /\ UNCHANGED <<outputDir, files>>
       ELSE /\ outputDir' = Put(outputDir, Head(files),
                                WithHostedgit(RewriteFile(Head(files), generated[Head(files)])))
            /\ files' = Tail(files)
            /\ UNCHANGED <<ctlVars, log>>
    /\ UNCHANGED <<optVars, prompts, tries, setupVars, importVars, gritVars, applyVars,
                   drafts, disableTriggers, github_integrated, generated, repoToTfName,
                   toolIdToTfName, newConvertedTf>>

\* the file of the converted resources when no githubconsolidated file was
\* generated (terraform.js 367-373), the hosted-git file
ComposeRest ==
    (IF hasGHE /\ ~isCompact /\ ~Has(generated, FileGithub)
     THEN [f \in {FileGithub} |-> newConvertedTf]
     ELSE NoKeys)
    @@ (IF hostedgit # <<>> /\ ~isCompact THEN [f \in {FileHostedgit} |-> hostedgit] ELSE NoKeys)

\* the loop over the files is over: the last file, Promise.all
ComposeFinish ==
    /\ pc = "grit"
    /\ ~HostedgitUnfinished
    /\ files = <<>>
    /\ \E ok \in BOOLEAN :
         IF ok
         THEN /\ outputDir' = ComposeRest @@ outputDir
              /\ StageDone("ExportCompose", "apply")
              /\ UNCHANGED log
         ELSE /\ StageFail("ExportCompose", "write")
              /\ UNCHANGED outputDir
    /\ UNCHANGED <<optVars, prompts, tries, setupVars, importVars, gritVars, applyVars,
                   drafts, disableTriggers, github_integrated, generated, files, repoToTfName, toolIdToTfName,
                   newConvertedTf>>

\* (mutation) terraform is run whether the run is a dry run or not
SkipApplyNever == FALSE

\* the else branch of if (!dryRun) (copy-toolchain.js 295, 346-348)
SkipApply == dryRun

\* the try block of Apply up to the first apply; a dry run skips it all
ApplyStart ==
    /\ pc = "apply"
    /\ IF SkipApply
       THEN /\ log' = log \cup {Logged("info", "Apply", "skipping")}
            /\ completed' = Append(completed, "Apply")
            /\ pc' = "cleanup"
            /\ UNCHANGED <<started, failed, exitCode, tempDir, logStream>>
       ELSE \E ok \in BOOLEAN :
              IF ok THEN StageGoes("applyToolchain") /\ UNCHANGED log
              ELSE StageFail("Apply", "init")
    /\ UNCHANGED tfVars
    /\ UNCHANGED <<optVars, prompts, tries, setupVars, importVars, gritVars, applyVars>>

\* runTerraformApply targeted at the toolchain (copy-toolchain.js 329): its
\* rejection is thrown into the catch block
ApplyToolchain ==
    /\ pc = "applyToolchain"
    /\ \E ok \in BOOLEAN :
         /\ applies' = Append(applies, [target |-> "toolchain", ok |-> ok])
         /\ IF ok THEN StageGoes("applyRest") /\ UNCHANGED log
            ELSE StageFail("Apply", "applyToolchain")
    /\ UNCHANGED tfVars
    /\ UNCHANGED <<optVars, prompts, tries, setupVars, importVars, gritVars, applyErrors>>

\* (mutation) the rejection of the second apply is not noted
ApplyRestErrorsIgnored(ok) == FALSE

\* applyErrors after the .catch of the second apply (copy-toolchain.js 335-338)
ApplyRestErrors(ok) == ~ok

\* runTerraformApply on the rest: its rejection is caught and logged, the
\* summary is printed either way and the try block ends
ApplyRest ==
    /\ pc = "applyRest"
    /\ \E ok \in BOOLEAN :
         /\ applies' = Append(applies, [target |-> "rest", ok |-> ok])
         /\ applyErrors' = ApplyRestErrors(ok)
         /\ log' = log \cup (IF ok THEN {} ELSE {Logged("error", "Apply", "applyRest")})
                      \cup {Logged("info", "summary",
                                   IF ApplyRestErrors(ok) THEN "with some errors" ELSE "successfully")}
    /\ completed' = Append(completed, "Apply")
    /\ pc' = "cleanup"
    /\ UNCHANGED tfVars
    /\ UNCHANGED <<optVars, started, failed, exitCode, tempDir, logStream, prompts, tries,
                   setupVars, importVars, gritVars>>

\* the code after the last catch block: handleCleanup, exit(0)
Finish ==
    /\ pc = "cleanup"
    /\ HandleCleanup
    /\ exitCode' = 0
    /\ pc' = "exit"
    /\ UNCHANGED tfVars
    /\ UNCHANGED <<optVars, started, completed, failed, ioVars, setupVars, importVars, gritVars,
                   applyVars>>

----------------------------------------------------------------------------
(* The whole run *)

ToolGit ==
    [id |-> "g1", tool_type_id |-> <<"h","o","s","t","e","d","g","i","t">>, name |-> <<"M","y"," ","R","e","p","o">>, tekton |-> FALSE,
     pipeline |-> <<>>, parameters |-> NoKeys]

SpecToolLists == {<<ToolGit>>}

\* the mapping files of a whole run: none, and two keys with one value
SpecGritFiles == {f \in GritFiles : f = <<>> \/ (Len(f) = 2 /\ f[1][2] = f[2][2])}

Init ==
    /\ skipUserConfirmation \in BOOLEAN
    /\ dryRun \in BOOLEAN
    /\ isCompact = FALSE
    /\ DEBUG_MODE \in BOOLEAN
    /\ pc = "prereqs"
    /\ started = <<"Setup">>
    /\ completed = <<>>
    /\ failed = "none"
    /\ exitCode = -1
    /\ tempDir = FALSE
    /\ logStream \in {"none", "open"}
    /\ log = {}
    /\ prompts = {}
    /\ tries = 0
    /\ gritFile \in SpecGritFiles
    /\ gritPending = {}
    /\ errorCount = 0
    /\ sameName = {}
    /\ dupTcName = <<>>
    /\ tcName = <<>>
    /\ targetTag = <<>>
    /\ tools \in SpecToolLists
    /\ toolIdx = 1
    /\ importBlocks = <<>>
    /\ importFile = <<>>
    /\ nonSecretRefs = <<>>
    /\ hostedgit = <<>>
    /\ gritIdx = 1
    /\ gritMapping = <<>>
    /\ usedGritUrls = {}
    /\ gritProjects = GritSlugs
    /\ gritChecked = {}
    /\ applies = <<>>
    /\ applyErrors = FALSE
    /\ disableTriggers \in BOOLEAN
    /\ TfIdle

Next ==
    \/ SetupPrereqs \/ SetupCdInstance \/ ConfirmAnswer \/ SetupOutputDir
    \/ SetupGritMapping \/ GritValidateSettle \/ GritValidateJoin
    \/ SetupToolchain \/ SetupDuplicateName \/ NamePromptAnswer \/ TagPromptAnswer
    \/ SetupValidateTools \/ SetupValidateOAuth \/ SetupFinish
    \/ ImportStart \/ ImportTool \/ ImportWrite
    \/ ComposeStart \/ GritResource \/ GritPromptAnswer \/ PromptSigint
    \/ ComposeFile \/ ComposeFinish
    \/ ApplyStart \/ ApplyToolchain \/ ApplyRest \/ Finish

Spec == Init /\ [][Next]_vars


----------------------------------------------------------------------------
(* Setup on its own, over every mapping file, name and tag of the model *)

InitSetup ==
    /\ skipUserConfirmation \in BOOLEAN
    /\ dryRun = FALSE
    /\ isCompact = FALSE
    /\ DEBUG_MODE \in BOOLEAN
    /\ pc = "prereqs"
    /\ started = <<"Setup">>
    /\ completed = <<>>
    /\ failed = "none"
    /\ exitCode = -1
    /\ tempDir = FALSE
    /\ logStream \in {"none", "open"}
    /\ log = {}
    /\ prompts = {}
    /\ tries = 0
    /\ gritFile \in GritFiles
    /\ gritPending = {}
    /\ errorCount = 0
    /\ sameName = {}
    /\ dupTcName = <<>>
    /\ tcName \in OptNames
    /\ targetTag \in OptTags
    /\ tools = <<>>
    /\ toolIdx = 1
    /\ importBlocks = <<>>
    /\ importFile = <<>>
    /\ nonSecretRefs = <<>>
    /\ hostedgit = <<>>
    /\ gritIdx = 1
    /\ gritMapping = <<>>
    /\ usedGritUrls = {}
    /\ gritProjects \in {GritSlugs, {SlugAB}}
    /\ gritChecked = {}
    /\ applies = <<>>
    /\ applyErrors = FALSE
    /\ disableTriggers = TRUE
    /\ TfIdle

NextSetup ==
    \/ SetupPrereqs \/ SetupCdInstance \/ ConfirmAnswer \/ SetupOutputDir
    \/ SetupGritMapping \/ GritValidateSettle \/ GritValidateJoin
    \/ SetupToolchain \/ SetupDuplicateName \/ NamePromptAnswer \/ TagPromptAnswer
    \/ PromptSigint \/ SetupValidateTools \/ SetupValidateOAuth \/ SetupFinish

SpecSetup == InitSetup /\ [][NextSetup]_vars

----------------------------------------------------------------------------
(* importTerraform on its own, over the toolchains of the model *)

NoName == Undefined

ToolGhe ==
    [id |-> "h1", tool_type_id |-> <<"g","i","t","h","u","b","_","i","n","t","e","g","r","a","t","e","d">>, name |-> NoName, tekton |-> FALSE,
     pipeline |-> <<>>, parameters |-> NoKeys]

ToolSlack ==
    [id |-> "s1", tool_type_id |-> <<"s","l","a","c","k">>, name |-> NoName, tekton |-> FALSE,
     pipeline |-> <<>>, parameters |-> NoKeys]

ToolClassic ==
    [id |-> "c1", tool_type_id |-> <<"p","i","p","e","l","i","n","e">>, name |-> <<"c","i">>, tekton |-> FALSE,
     pipeline |-> <<>>, parameters |-> NoKeys]

\* a tekton pipeline with a definition, a property and two triggers, the
\* first of them with a property of its own
ToolTekton ==
    [id |-> "p1", tool_type_id |-> <<"p","i","p","e","l","i","n","e">>, name |-> <<"C","D","-","P","i","p","e">>, tekton |-> TRUE, parameters |-> NoKeys,
     pipeline |->
        [id |-> "p1", definitions |-> <<"d1">>, properties |-> <<<<"e","n","v">>>>,
         triggers |-> << [id |-> "t1", name |-> <<"M","a","n","u","a","l">>, properties |-> <<<<"b","r","a","n","c","h">>>>],
                         [id |-> "t2", name |-> <<"G","i","t"," ","P","u","s","h">>, properties |-> <<>>] >>]]

\* a second pipeline of the same name, its only trigger with two properties
ToolTekton2 ==
    [id |-> "p2", tool_type_id |-> <<"p","i","p","e","l","i","n","e">>, name |-> <<"C","D","-","P","i","p","e">>, tekton |-> TRUE, parameters |-> NoKeys,
     pipeline |->
        [id |-> "p2", definitions |-> <<>>, properties |-> <<>>,
         triggers |-> << [id |-> "t3", name |-> <<"M","a","n","u","a","l">>,
                          properties |-> <<<<"b","r","a","n","c","h">>, <<"e","n","v">>>>] >>]]

\* tools with secret-bearing parameters: a literal where the key is optional,
\* a literal under a met prerequisite, and the three forms of secret reference
ToolJenkins ==
    [id |-> "j1", tool_type_id |-> <<"j","e","n","k","i","n","s">>, name |-> <<"c","i">>, tekton |-> FALSE,
     pipeline |-> <<>>, parameters |-> [api_token |-> <<"s","3","c","r","3","t">>]]

ToolCos ==
    [id |-> "o1", tool_type_id |-> <<"c","l","o","u","d","o","b","j","e","c","t","s","t","o","r","a","g","e">>, name |-> NoName, tekton |-> FALSE,
     pipeline |-> <<>>,
     parameters |-> [auth_type |-> <<"a","p","i","k","e","y">>, cos_api_key |-> <<"h","4","s","h">>]]

ToolSauce ==
    [id |-> "u1", tool_type_id |-> <<"s","a","u","c","e","l","a","b","s">>, name |-> NoName, tekton |-> FALSE,
     pipeline |-> <<>>, parameters |-> [key |-> <<"r","e","f",":","/","/","s","e","c","r","e","t","s","-","m","a","n","a","g","e","r",".","e","u","-","g","b",".","g",".","s","a","u","c","e">>]]

ToolSlackVault ==
    [id |-> "s2", tool_type_id |-> <<"s","l","a","c","k">>, name |-> NoName, tekton |-> FALSE,
     pipeline |-> <<>>, parameters |-> [api_token |-> <<"{","v","a","u","l","t",":",":","k","p",".","h","o","o","k","}">>]]

ToolNexusCrn ==
    [id |-> "n1", tool_type_id |-> <<"n","e","x","u","s">>, name |-> NoName, tekton |-> FALSE,
     pipeline |-> <<>>,
     parameters |-> [token |-> <<"c","r","n",":","v","1",":","b","l","u","e","m","i","x",":","p","u","b","l","i","c",":","s","e","c","r","e","t","s","-","m","a","n","a","g","e","r",":","e","u","-","g","b",":","a","/","0","a","1","b",":","0","1","2","3","4","5","6","7","-","8","9","a","b","-","c","d","e","f","-","0","1","2","3","-","4","5","6","7","8","9","a","b","c","d","e","f",":","s","e","c","r","e","t",":","0","1","2","3","4","5","6","7","-","8","9","a","b","-","c","d","e","f","-","0","1","2","3","-","4","5","6","7","8","9","a","b","c","d","e","f">>]]

ImportToolLists ==
    { <<>>, <<ToolGit>>, <<ToolGhe, ToolSlack>>, <<ToolTekton>>,
      <<ToolGit, ToolTekton2, ToolClassic>>, <<ToolTekton2, ToolTekton>>,
      <<ToolJenkins, ToolCos>>, <<ToolSlackVault, ToolSauce, ToolSlack>>, <<ToolNexusCrn>> }

InitImport ==
    /\ skipUserConfirmation = FALSE
    /\ dryRun = FALSE
    /\ isCompact \in BOOLEAN
    /\ DEBUG_MODE = FALSE
    /\ pc = "import"
    /\ started = <<"Setup", "SnapshotImport">>
    /\ completed = <<"Setup">>
    /\ failed = "none"
    /\ exitCode = -1
    /\ tempDir = TRUE
    /\ logStream = "open"
    /\ log = {}
    /\ prompts = {}
    /\ tries = 0
    /\ gritFile = <<>>
    /\ gritPending = {}
    /\ errorCount = 0
    /\ sameName = {}
    /\ dupTcName = SourceName
    /\ tcName = SourceName
    /\ targetTag = <<>>
    /\ tools \in ImportToolLists
    /\ toolIdx = 1
    /\ importBlocks = <<>>
    /\ importFile = <<>>
    /\ nonSecretRefs = <<>>
    /\ hostedgit = <<>>
    /\ gritIdx = 1
    /\ gritMapping = <<>>
    /\ usedGritUrls = {}
    /\ gritProjects = GritSlugs
    /\ gritChecked = {}
    /\ applies = <<>>
    /\ applyErrors = FALSE
    /\ disableTriggers = TRUE
    /\ TfIdle

NextImport == ImportStart \/ ImportTool \/ ImportWrite

SpecImport == InitImport /\ [][NextImport]_vars

----------------------------------------------------------------------------
(* setupTerraformFiles on its own: the drafts and the legacy tools vary *)

TriggerTypes == {"manual", "scm", "timer"}

TriggerEnabled == {NoKeys, [enabled |-> TRUE], [enabled |-> FALSE]}

\* no source, a source without url, the repository of a legacy tool, a GRIT
\* repository of the mapping
ResourceSources ==
    {NoKeys, [source |-> [branch |-> "main"]], [source |-> [url |-> UrlGheRepo]],
     [source |-> [url |-> UrlTorTeamProj]]}

\* no depends_on, an empty one, one that names a resource
ResourceDependsOn ==
    {NoKeys, [depends_on |-> <<>>], [depends_on |-> <<"ibm_cd_toolchain_tool_hostedgit.g1">>]}

TriggerResources ==
    {[type |-> ty] @@ e @@ s @@ d :
        ty \in TriggerTypes, e \in TriggerEnabled, s \in ResourceSources, d \in ResourceDependsOn}

DefinitionResources == {s @@ d : s \in ResourceSources, d \in ResourceDependsOn}

ToolchainFile ==
    [f \in {FileToolchain} |->
        [k \in {ToolchainId} |-> [name |-> SourceName, tags |-> <<<<"e","n","v",":","p","r","o","d">>>>]]]

GithubFile ==
    [f \in {FileGithub} |-> [k \in {"gh1"} |-> [name |-> "gh", parameters |-> [auth_type |-> "oauth"]]]]

\* the generated files: a trigger file, a definition file, both, with and
\* without a file of githubconsolidated resources
GeneratedDrafts ==
    {ToolchainFile @@ [f \in {FileTrigger} |-> [k \in {"t1"} |-> t]] : t \in TriggerResources}
    \cup {ToolchainFile @@ [f \in {FileDefinition} |-> [k \in {"d1"} |-> d]] :
            d \in DefinitionResources}
    \cup {ToolchainFile @@ GithubFile @@
          [f \in {FileTrigger, FileDefinition} |->
              IF f = FileTrigger
              THEN [k \in {"t1", "t2"} |->
                      IF k = "t1" THEN [type |-> "manual", enabled |-> TRUE] @@ s @@ d
                      ELSE [type |-> "timer", enabled |-> TRUE]]
              ELSE [k \in {"d1"} |-> s @@ d]] : s \in ResourceSources, d \in ResourceDependsOn}

GheTools(id, url) == {GheTool(id, url, a, tok) : a \in GheAuthTypes, tok \in GheTokens}

\* no legacy tool, one, two
GheLists ==
    {<<>>} \cup {<<t>> : t \in GheTools("h1", UrlGheRepo)}
    \cup {<<t, u>> : t \in GheTools("h1", UrlGheRepo), u \in GheTools("h2", UrlGheOther)}

InitCompose ==
    /\ skipUserConfirmation = TRUE
    /\ dryRun = FALSE
    /\ isCompact = FALSE
    /\ DEBUG_MODE = FALSE
    /\ pc = "compose"
    /\ started = <<"Setup", "SnapshotImport", "ExportCompose">>
    /\ completed = <<"Setup", "SnapshotImport">>
    /\ failed = "none"
    /\ exitCode = -1
    /\ tempDir = TRUE
    /\ logStream = "open"
    /\ log = {}
    /\ prompts = {}
    /\ tries = 0
    /\ gritPending = {}
    /\ errorCount = 0
    /\ sameName = {}
    /\ dupTcName = <<>>
    /\ tcName = <<"c","o","p","y">>
    /\ targetTag = <<"e","n","v",":","p","r","o","d">>
    /\ tools = <<>>
    /\ toolIdx = 1
    /\ importBlocks = <<>>
    /\ importFile = <<>>
    /\ nonSecretRefs = <<>>
    /\ hostedgit = <<>>
    /\ gritIdx = 1
    /\ gritProjects = GritSlugs
    /\ gritFile = <<<<UrlTorTeamProj, UrlGbAB>>>>
    /\ gritMapping = MappingOf(gritFile)
    /\ usedGritUrls = {}
    /\ gritChecked = {}
    /\ applies = <<>>
    /\ applyErrors = FALSE
    /\ disableTriggers \in BOOLEAN
    /\ github_integrated \in GheLists
    /\ generated \in GeneratedDrafts
    /\ files = <<>>
    /\ repoToTfName = <<>>
    /\ toolIdToTfName = <<>>
    /\ newConvertedTf = <<>>
    /\ outputDir = <<>>
    /\ drafts = <<>>

NextCompose == ComposeStart \/ GritResource \/ ComposeFile \/ ComposeFinish

SpecCompose == InitCompose /\ [][NextCompose]_vars

\* the normalization of a draft on its own, applied and applied again
InitNormalize ==
    /\ skipUserConfirmation = FALSE
    /\ dryRun = FALSE
    /\ isCompact = FALSE
    /\ DEBUG_MODE = FALSE
    /\ pc = "importTool"
    /\ started = <<"Setup", "SnapshotImport">>
    /\ completed = <<"Setup">>
    /\ failed = "none"
    /\ exitCode = -1
    /\ tempDir = TRUE
    /\ logStream = "open"
    /\ log = {}
    /\ prompts = {}
    /\ tries = 0
    /\ gritFile = <<>>
    /\ gritPending = {}
    /\ errorCount = 0
    /\ sameName = {}
    /\ dupTcName = <<>>
    /\ tcName = <<>>
    /\ targetTag = <<>>
    /\ tools = <<>>
    /\ toolIdx = 1
    /\ importBlocks = <<>>
    /\ importFile = <<>>
    /\ nonSecretRefs = <<>>
    /\ hostedgit = <<>>
    /\ gritIdx = 1
    /\ gritMapping = <<>>
    /\ usedGritUrls = {}
    /\ gritProjects = {}
    /\ gritChecked = {}
    /\ applies = <<>>
    /\ applyErrors = FALSE
    /\ disableTriggers = TRUE
    /\ github_integrated = <<>>
    /\ generated = <<>>
    /\ files = <<>>
    /\ repoToTfName = <<>>
    /\ toolIdToTfName = <<>>
    /\ newConvertedTf = <<>>
    /\ outputDir = <<>>
    /\ \E d \in DraftDocs : drafts = <<[threw |-> FALSE, doc |-> d]>>

NextNormalize == NormalizePass

SpecNormalize == InitNormalize /\ [][NextNormalize]_vars

----------------------------------------------------------------------------
(* validateGritUrl and validateToolchainName on their own, as main calls *)
(* them in Setup                                                          *)

\* the variables the validations of Setup neither read nor write
ValidateIdle ==
    /\ skipUserConfirmation = TRUE
    /\ dryRun = FALSE
    /\ isCompact = FALSE
    /\ DEBUG_MODE \in BOOLEAN
    /\ started = <<"Setup">>
    /\ completed = <<>>
    /\ failed = "none"
    /\ exitCode = -1
    /\ tempDir = FALSE
    /\ logStream \in {"none", "open"}
    /\ log = {}
    /\ prompts = {}
    /\ tries = 0
    /\ gritPending = {}
    /\ errorCount = 0
    /\ sameName = {}
    /\ dupTcName = <<>>
    /\ targetTag = <<>>
    /\ tools = <<>>
    /\ toolIdx = 1
    /\ importBlocks = <<>>
    /\ importFile = <<>>
    /\ nonSecretRefs = <<>>
    /\ hostedgit = <<>>
    /\ gritIdx = 1
    /\ gritMapping = <<>>
    /\ usedGritUrls = {}
    /\ gritChecked = {}
    /\ applies = <<>>
    /\ applyErrors = FALSE
    /\ disableTriggers = TRUE
    /\ TfIdle

\* user or group paths and project names of candidate urls
CandidateGroups == {<<"t","e","a","m">>, <<"a">>, <<"g","r","p","/","s","u","b">>}

CandidateProjects ==
    {<<"p","r","o","j">>, <<"b">>, <<"p","r","o","j",".","g","i","t">>, <<"p","r","o","j",".","a","t","o","m">>, <<"b",".","a","t","o","m">>, <<"b",".","g","i","t">>, <<"p","r","o","j",".","g","i","t","x">>,
     <<"a","t","o","m">>, <<"g","i","t">>, <<"p","r","o","j",".","a","t","o","m",".","g","i","t">>, <<"p","r","o","j",".","g","i","t",".","a","t","o","m">>, <<"p","r","o","j","-">>, <<"p","r",".",".","o","j">>, <<"b","a","d","g","e","s">>}

\* the full url of the project in the target region
CandidateUrl(group, project) ==
    GritHost(TargetRegion) \o <<"/">> \o group \o <<"/">> \o project \o DotGit

CandidateSlugs == {g \o <<"/">> \o p : g \in CandidateGroups, p \in CandidateProjects}

\* mapping files with one entry, the candidate as its value
InitRepoUrl ==
    /\ ValidateIdle
    /\ pc = "gritFile"
    /\ tcName = <<>>
    /\ gritProjects \in {CandidateSlugs, {SlugTeamProj}}
    /\ \E g \in CandidateGroups : \E p \in CandidateProjects :
         gritFile = << <<UrlTorTeamProj, CandidateUrl(g, p)>> >>

NextRepoUrl == SetupGritMapping \/ GritValidateSettle \/ GritValidateJoin

SpecRepoUrl == InitRepoUrl /\ [][NextRepoUrl]_vars

\* code units outside ASCII: a letter, a control character of the C1 block,
\* a zero-width space
NonAsciiLetter == "U+00E9"
NonAsciiControl == "U+0085"
NonAsciiZeroWidth == "U+200B"

NonAsciiChars == {NonAsciiLetter, NonAsciiControl, NonAsciiZeroWidth}

Repeat(c, n) == [i \in 1..n |-> c]

\* names for the --name option: plain ones, the one of Scenario B, the one
\* of the test, a blank one, one character of every kind between two
\* letters, names of 128 and 129 characters with and without blanks around
\* them
NameCandidates ==
    {<<"m","y","-","t","o","o","l","_","1",".","0"," ","x">>, <<" ","t","c"," ">>, <<"M","y"," ","T","o","o","l","!","!">>, <<"i","n","v","a","l","i","d","T","o","o","l","c","h","a","i","n","N","a","m","e","@">>, <<" ","!"," ">>,
     <<" "," ">>}
    \cup {<<"a", c, "b">> : c \in AsciiPunct \cup NonAsciiChars \cup {"Z", "7"}}
    \cup {Repeat("a", MaxNameLen), Repeat("a", MaxNameLen + 1),
          <<" ">> \o Repeat("a", MaxNameLen) \o <<" ">>,
          <<" ">> \o Repeat("a", MaxNameLen + 1) \o <<" ">>,
          Repeat(NonAsciiLetter, MaxNameLen + 1)}

InitName ==
    /\ ValidateIdle
    /\ pc = "crn"
    /\ gritFile = <<>>
    /\ gritProjects = {}
    /\ tcName \in NameCandidates

NextName == SetupToolchain

SpecName == InitName /\ [][NextName]_vars

----------------------------------------------------------------------------
(* setupTerraformFiles from its loop over the files on, in split and in *)
(* compact mode, with hosted-git resources, properties and legacy tools *)

MaxRewriteGrit == 2

\* the hosted-git resources of the draft: a url of the mapping file, one
\* whose candidate is the value of the mapping file, one that is no url
RewriteHostedgit ==
    UNION { { [i \in 1..n |-> GritResourceOf(i, f[i])] :
                f \in [1..n -> {UrlTorTeamProj, UrlTorAB, UrlNoScheme}] }
            : n \in 0..MaxRewriteGrit }

\* the properties of a pipeline or of a trigger: an integration property
\* with the id of the legacy tool, one with another id, a text property with
\* the id of the legacy tool
PropertyText == [name |-> "p", type |-> "text", value |-> "h1"]

PropertyResources ==
    {[name |-> "p", type |-> "integration", value |-> "h1"],
     [name |-> "p", type |-> "integration", value |-> "slack-1"],
     PropertyText}

Optional(type, resources) == {NoKeys} \cup {[ty \in {type} |-> r] : r \in resources}

\* the triggers and definitions of a draft: none, a trigger and a definition
\* on hosted-git repositories, a trigger on the repository of the legacy
\* tool, a definition alone
SourcedResources ==
    {NoKeys,
     [ty \in {"ibm_cd_tekton_pipeline_trigger", "ibm_cd_tekton_pipeline_definition"} |->
         IF ty = "ibm_cd_tekton_pipeline_trigger"
         THEN [t1 |-> [type |-> "scm", source |-> [url |-> UrlTorAB]]]
         ELSE [d1 |-> [source |-> [url |-> UrlTorTeamProj]]]],
     [ty \in {"ibm_cd_tekton_pipeline_trigger"} |->
         [t1 |-> [type |-> "scm", source |-> [url |-> UrlGheRepo]]]],
     [ty \in {"ibm_cd_tekton_pipeline_definition"} |->
         [d1 |-> [source |-> [url |-> UrlTorAB]]]]}

\* the resources of a draft by type: always the toolchain, triggers,
\* definitions and properties or not
TypedDrafts ==
    {[ty \in {"ibm_cd_toolchain"} |-> ToolchainFile[FileToolchain]] @@ s @@ pp @@ tp :
        s \in SourcedResources,
        pp \in Optional("ibm_cd_tekton_pipeline_property",
                        {[p1 |-> p] : p \in PropertyResources}),
        tp \in Optional("ibm_cd_tekton_pipeline_trigger_property",
                        {[q1 |-> [name |-> "q", type |-> "integration", value |-> "h1"]]})}

\* the file of the split mode for a type (copy-toolchain.js 712-720)
FileOfType(type) == CHOOSE f \in Range(FileOrder) : ResourceNameOf(f) = type

\* the generated directory for a draft (copy-toolchain.js 712-724)
GeneratedOf(doc) ==
    IF isCompact THEN [f \in {FileResources} |-> doc]
    ELSE [f \in {FileOfType(ty) : ty \in DOMAIN doc} |-> doc[ResourceNameOf(f)]]

InitRewrite ==
    /\ skipUserConfirmation \in BOOLEAN
    /\ dryRun = FALSE
    /\ DEBUG_MODE = FALSE
    /\ isCompact \in BOOLEAN
    /\ pc = "grit"
    /\ started = <<"Setup", "SnapshotImport", "ExportCompose">>
    /\ completed = <<"Setup", "SnapshotImport">>
    /\ failed = "none"
    /\ exitCode = -1
    /\ tempDir = TRUE
    /\ logStream = "open"
    /\ log = {}
    /\ prompts = {}
    /\ tries = 0
    /\ gritPending = {}
    /\ errorCount = 0
    /\ sameName = {}
    /\ dupTcName = <<>>
    /\ tcName = <<"c","o","p","y">>
    /\ targetTag = <<"e","n","v",":","p","r","o","d">>
    /\ tools = <<>>
    /\ toolIdx = 1
    /\ importBlocks = <<>>
    /\ importFile = <<>>
    /\ nonSecretRefs = <<>>
    /\ hostedgit \in RewriteHostedgit
    /\ gritIdx = 1
    /\ gritProjects = GritSlugs
    /\ gritFile \in {<<>>, << <<UrlTorTeamProj, UrlGbAB>> >>}
    /\ gritMapping = MappingOf(gritFile)
    /\ usedGritUrls = Range(gritMapping)
    /\ gritChecked = {}
    /\ applies = <<>>
    /\ applyErrors = FALSE
    /\ disableTriggers = TRUE
    /\ github_integrated \in {<<>>, <<GheTool("h1", UrlGheRepo, "oauth", NoKeys)>>}
    /\ \E doc \in TypedDrafts : generated = GeneratedOf(doc)
    /\ files = FilesOf(generated)
    /\ \E rand \in [1..Len(github_integrated) -> RandSuffixes] :
         /\ repoToTfName = RepoToTfNameOf(github_integrated, rand, Len(github_integrated))
         /\ toolIdToTfName = ToolIdToTfNameOf(github_integrated, rand, Len(github_integrated))
         /\ newConvertedTf = NewConvertedTfOf(github_integrated, rand, Len(github_integrated))
    /\ outputDir = [f \in {FileProvider, FileOutput} |-> NoKeys]
    /\ drafts = <<>>

NextRewrite == GritResource \/ GritPromptAnswer \/ ComposeFile \/ ComposeFinish

SpecRewrite == InitRewrite /\ [][NextRewrite]_vars

----------------------------------------------------------------------------
(* setupTerraformFiles: the overrides of the toolchain, over the tags the *)
(* toolchain has and the tag of the options                              *)

TagProd == <<"e","n","v",":","p","r","o","d">>

TagTeam == <<"t","e","a","m",":","a">>

\* the tags of the source toolchain: no tags field, no tag, one, two, the
\* target tag among them or not
ToolchainTags ==
    {NoKeys, [tags |-> <<>>], [tags |-> <<TagTeam>>], [tags |-> <<TagProd>>],
     [tags |-> <<TagTeam, TagProd>>], [tags |-> <<TagProd, TagTeam>>]}

\* a draft with the toolchain, and with the properties compact mode needs
TaggedDrafts ==
    {[ty \in {"ibm_cd_toolchain"} |-> [k \in {ToolchainId} |-> [name |-> SourceName] @@ tags]]
     @@ pp @@ tp :
        tags \in ToolchainTags,
        pp \in Optional("ibm_cd_tekton_pipeline_property", {[p1 |-> PropertyText]}),
        tp \in Optional("ibm_cd_tekton_pipeline_trigger_property", {[q1 |-> PropertyText]})}

InitTag ==
    /\ skipUserConfirmation = TRUE
    /\ dryRun = FALSE
    /\ DEBUG_MODE = FALSE
    /\ isCompact \in BOOLEAN
    /\ pc = "grit"
    /\ started = <<"Setup", "SnapshotImport", "ExportCompose">>
    /\ completed = <<"Setup", "SnapshotImport">>
    /\ failed = "none"
    /\ exitCode = -1
    /\ tempDir = TRUE
    /\ logStream = "open"
    /\ log = {}
    /\ prompts = {}
    /\ tries = 0
    /\ gritPending = {}
    /\ errorCount = 0
    /\ sameName = {}
    /\ dupTcName = <<>>
    /\ tcName \in {<<>>, <<"c","o","p","y">>}
    /\ targetTag \in {<<>>, TagProd}
    /\ tools = <<>>
    /\ toolIdx = 1
    /\ importBlocks = <<>>
    /\ importFile = <<>>
    /\ nonSecretRefs = <<>>
    /\ hostedgit = <<>>
    /\ gritIdx = 1
    /\ gritProjects = {}
    /\ gritFile = <<>>
    /\ gritMapping = <<>>
    /\ usedGritUrls = {}
    /\ gritChecked = {}
    /\ applies = <<>>
    /\ applyErrors = FALSE
    /\ disableTriggers = TRUE
    /\ github_integrated = <<>>
    /\ \E doc \in TaggedDrafts : generated = GeneratedOf(doc)
    /\ files = FilesOf(generated)
    /\ repoToTfName = NoKeys
    /\ toolIdToTfName = NoKeys
    /\ newConvertedTf = NoKeys
    /\ outputDir = [f \in {FileProvider, FileOutput} |-> NoKeys]
    /\ drafts = <<>>

NextTag == ComposeFile \/ ComposeFinish

SpecTag == InitTag /\ [][NextTag]_vars






----------------------------------------------------------------------------
(* Properties *)

IsPrefix(s, t) == Len(s) <= Len(t) /\ \A i \in 1..Len(s) : s[i] = t[i]

\* what handleCleanup leaves behind
CleanedUp == (tempDir => DEBUG_MODE) /\ logStream # "open"

\* C1: Setup, SnapshotImport, ExportCompose and Apply are started in that
\* order and one at a time, a stage only after every earlier one has
\* completed, and after a stage has failed no later stage is started
C1_StagesInOrder ==
    /\ IsPrefix(started, StageOrder)
    /\ IsPrefix(completed, started)
    /\ Len(started) <= Len(completed) + 1
    /\ failed # "none" =>
         /\ started[Len(started)] = failed
         /\ Len(completed) = Len(started) - 1

C1_Witness ==
    /\ pc = "exit"
    /\ failed = "ExportCompose"
    /\ started = <<"Setup", "SnapshotImport", "ExportCompose">>
    /\ completed = <<"Setup", "SnapshotImport">>

\* C2: whenever a stage has failed and the process has exited, the temp
\* directory is removed unless the debug flag is set and the log stream is
\* closed
C2_CleanupOnEveryFailure ==
    (pc = "exit" /\ failed # "none") => CleanedUp

DuplicateTargets(file) ==
    {i \in 1..Len(file) : \E j \in 1..(i - 1) : file[j][2] = file[i][2]}

\* the validation of the mapping file is over
MappingValidated == gritMapping # <<>> /\ gritPending = {} /\ pc # "gritJoin"

\* C4: once the values of a mapping file with two keys on one value have
\* been validated, Setup has failed and the error logged counts the keys
\* with a duplicate target beyond the first
C4_DuplicateTargetsRejected ==
    (MappingValidated /\ DuplicateTargets(gritFile) # {}) =>
        /\ failed = "Setup"
        /\ Logged("error", "Setup",
                  "gritErrorCount " \o ToString(Cardinality(DuplicateTargets(gritFile)))) \in log

\* the run has gone on after warnDuplicateName
AfterDuplicateName ==
    pc \in {"tools", "toolsConfirm", "oauth", "oauthConfirm", "setupEnd", "import"}

\* C5 as stated: when a toolchain of the name exists in the target region
\* and resource group, the run goes on only with another name
C5_ReplacementNameObtained ==
    ("both" \in sameName /\ AfterDuplicateName) => tcName # dupTcName

\* C5: when a toolchain of the name exists in the target region and resource
\* group, the collision is logged as a warning; unless the run is
\* auto-confirmed the operator is asked for a name and the run goes on with
\* the answer, trimmed and valid, which may be the name as it was; an
\* auto-confirmed run asks nothing and goes on with the name as it was
C5_DuplicateNameWarned ==
    "both" \in sameName =>
        /\ Logged("warn", "sameName", "both") \in log
        /\ IF skipUserConfirmation
           THEN <<"name", "">> \notin prompts /\ tcName = dupTcName
           ELSE /\ <<"name", "">> \in prompts
                /\ AfterDuplicateName =>
                     /\ validateToolchainName(tcName)
                     /\ tcName = Trim(tcName)
                     /\ tcName \in {dupTcName} \cup {Trim(a) : a \in NameEdits}

C5_Witness ==
    /\ "both" \in sameName
    /\ ~skipUserConfirmation
    /\ pc = "setupEnd"
    /\ tcName = dupTcName
    /\ <<"name", "">> \in prompts


\* the loop has dealt with the i-th hosted-git resource
Processed(i) == i \in 1..Len(hostedgit) /\ i < gritIdx

\* C6: a hosted-git resource gets the region-rewritten candidate as its url
\* only if validateGritUrl was called on the candidate and found the
\* project, and the candidate was not among the urls already used
C6_CandidateCheckedAndUnused ==
    \A i \in 1..Len(hostedgit) :
        hostedgit[i].how = "candidate" =>
            /\ hostedgit[i].name \in gritChecked
            /\ validateGritUrl(TargetRegion, hostedgit[i].url, TRUE).ok
            /\ ~hostedgit[i].threw

\* C7: a resource whose pass of the loop threw, or ended with an empty url
\* or an empty answer, has an entry of the log to its name, and the loop
\* goes on to the resources after it
C7_FailuresLogged ==
    /\ failed = "none"
    /\ \A i \in 1..Len(hostedgit) :
         (Processed(i) /\ (\/ hostedgit[i].threw
                           \/ hostedgit[i].how = "skipped"
                           \/ hostedgit[i].url = <<>>)) =>
             \E e \in log : e.res = hostedgit[i].name

\* C8: a processed resource whose url is a key of the mapping file has the
\* mapped value as its url, the value is among the used urls, and neither
\* validateGritUrl nor the operator was asked about it
C8_MappedUrlSubstituted ==
    \A i \in 1..Len(hostedgit) :
        hostedgit[i].url0 \in DOMAIN MappingOf(gritFile) =>
            /\ hostedgit[i].name \notin gritChecked
            /\ <<"grit", hostedgit[i].name>> \notin prompts
            /\ ~hostedgit[i].threw
            /\ Processed(i) =>
                 /\ hostedgit[i].how = "mapping"
                 /\ hostedgit[i].url = MappingOf(gritFile)[hostedgit[i].url0]
                 /\ gritMapping[hostedgit[i].url0] = hostedgit[i].url
                 /\ hostedgit[i].url \in usedGritUrls

C8_Witness ==
    \E i \in 1..Len(hostedgit) :
        /\ Processed(i)
        /\ hostedgit[i].url0 \in DOMAIN MappingOf(gritFile)
        /\ hostedgit[i].how = "mapping"
        /\ hostedgit[i].url # hostedgit[i].url0

\* the candidate of resource i was free when the loop came to it: no mapping
\* entry and no earlier resource of another url had taken it
CandidateFree(i, newUrl) ==
    /\ newUrl \notin Range(MappingOf(gritFile))
    /\ \A j \in 1..(i - 1) :
         hostedgit[j].url = newUrl => hostedgit[j].url0 = hostedgit[i].url0

\* C9: a processed resource with the url
\* https://ca-tor.git.cloud.ibm.com/team/proj.git, which is no key of the
\* mapping file, whose project team/proj exists in eu-gb and whose candidate
\* was free, has the url https://eu-gb.git.cloud.ibm.com/team/proj.git, and
\* the pair of the two urls is in gritMapping, the new one among the used urls
C9_ScenarioA ==
    \A i \in 1..Len(hostedgit) :
        (/\ Processed(i)
         /\ Render(hostedgit[i].url0) = "https://ca-tor.git.cloud.ibm.com/team/proj.git"
         /\ hostedgit[i].url0 \notin DOMAIN MappingOf(gritFile)
         /\ GritProjectExists(SlugTeamProj)
         /\ CandidateFree(i, UrlGbTeamProj)) =>
            /\ Render(hostedgit[i].url) = "https://eu-gb.git.cloud.ibm.com/team/proj.git"
            /\ hostedgit[i].url0 \in DOMAIN gritMapping
            /\ gritMapping[hostedgit[i].url0] = hostedgit[i].url
            /\ hostedgit[i].url \in usedGritUrls

C9_Witness ==
    /\ ~skipUserConfirmation
    /\ Len(hostedgit) >= 1
    /\ Processed(1)
    /\ hostedgit[1].url0 = UrlTorTeamProj
    /\ hostedgit[1].name \in gritChecked
    /\ hostedgit[1].how = "candidate"
    /\ Render(hostedgit[1].url) = "https://eu-gb.git.cloud.ibm.com/team/proj.git"


PipelineChildTypes ==
    {"ibm_cd_tekton_pipeline_definition", "ibm_cd_tekton_pipeline_property",
     "ibm_cd_tekton_pipeline_trigger", "ibm_cd_tekton_pipeline_trigger_property"}

\* block i is the trigger block j, a trigger property, belongs to
OwnTrigger(i, j) ==
    /\ importBlocks[i].type = "ibm_cd_tekton_pipeline_trigger"
    /\ importBlocks[i].path = SubSeq(importBlocks[j].path, 1, 2)

\* C10: the list of import blocks starts with the block of the toolchain,
\* the block of a pipeline comes before the blocks of its definitions,
\* properties, triggers and trigger properties, between the block of a
\* trigger and a block of one of its properties there are only blocks of its
\* properties, and import.tf holds the blocks of the list in list order
C10_ParentBeforeChild ==
    /\ \A j \in 1..Len(importBlocks) :
         /\ (importBlocks[j].type = "ibm_cd_toolchain") <=> (j = 1)
         /\ importBlocks[j].type \in PipelineChildTypes =>
              \E i \in 1..(j - 1) :
                  /\ importBlocks[i].type = "ibm_cd_tekton_pipeline"
                  /\ importBlocks[i].path = <<importBlocks[j].path[1]>>
         /\ importBlocks[j].type = "ibm_cd_tekton_pipeline_trigger_property" =>
              \E i \in 1..(j - 1) :
                  /\ OwnTrigger(i, j)
                  /\ \A k \in (i + 1)..(j - 1) :
                       /\ importBlocks[k].type = "ibm_cd_tekton_pipeline_trigger_property"
                       /\ OwnTrigger(i, k)
    /\ importFile # <<>> =>
         /\ Len(importFile) = Len(importBlocks)
         /\ \A i \in 1..Len(importBlocks) :
              /\ importFile[i].id = JoinTokens(importBlocks[i].path)
              /\ importFile[i].to = importBlocks[i].type \o "." \o Render(importBlocks[i].name)

C10_Witness ==
    /\ importFile # <<>>
    /\ Len(importFile) = 13
    /\ importFile[1].id = "tc1"
    /\ \E j \in 1..Len(importBlocks) : importBlocks[j].id = "p1/t1/branch"
    /\ \E j \in 1..Len(importBlocks) : importBlocks[j].id = "p1/t2"

----------------------------------------------------------------------------
(* setupTerraformFiles: the rewrites of the trigger and definition files *)

\* the files whose resources get depends_on for a legacy integration
InjectedFiles == {FileTrigger, FileDefinition}

\* the resource k of the generated file f had a depends_on that names something
HadDependsOn(f, k) ==
    Has(generated[f][k], "depends_on") /\ generated[f][k].depends_on # <<>>

\* C11: a trigger or pipeline definition that comes with a non-empty
\* depends_on is written with that depends_on, whether legacy GHE tools are
\* converted or not
C11_DependsOnKept ==
    \A f \in InjectedFiles \cap DOMAIN outputDir : \A k \in DOMAIN outputDir[f] :
        HadDependsOn(f, k) =>
            /\ Has(outputDir[f][k], "depends_on")
            /\ outputDir[f][k].depends_on = generated[f][k].depends_on

\* legacy tools are converted, and a trigger and a definition that have both
\* a source url and a depends_on of their own are written
C11_Witness ==
    /\ hasGHE
    /\ pc = "apply"
    /\ \E f \in InjectedFiles \cap DOMAIN outputDir : \E k \in DOMAIN outputDir[f] :
         /\ HadDependsOn(f, k)
         /\ f = FileTrigger
         /\ ~SourceThrows(generated[f][k]) /\ Truthy(SourceUrl(generated[f][k]))
    /\ \E f \in InjectedFiles \cap DOMAIN outputDir : \E k \in DOMAIN outputDir[f] :
         /\ HadDependsOn(f, k)
         /\ f = FileDefinition
         /\ ~SourceThrows(generated[f][k]) /\ Truthy(SourceUrl(generated[f][k]))

\* the trigger k is written with the enabled it was generated with, or
\* without one when it had none
EnabledKept(k) ==
    /\ Has(outputDir[FileTrigger][k], "enabled") <=> Has(generated[FileTrigger][k], "enabled")
    /\ Has(generated[FileTrigger][k], "enabled") =>
         outputDir[FileTrigger][k].enabled = generated[FileTrigger][k].enabled

IsManual(v) == Has(v, "type") /\ v.type = "manual"

\* C12: a manual trigger is written with its enabled untouched; unless
\* --skip-disable-triggers was given, every other trigger is written with
\* enabled = false
C12_TriggersDisabled ==
    FileTrigger \in DOMAIN outputDir =>
      \A k \in DOMAIN outputDir[FileTrigger] :
        LET v == outputDir[FileTrigger][k]
        IN  /\ IsManual(v) => EnabledKept(k)
            /\ (disableTriggers /\ ~IsManual(v)) => (Has(v, "enabled") /\ v.enabled = FALSE)

\* triggers are disabled, and a timer trigger that was enabled and a manual
\* trigger that was enabled are both written
C12_Witness ==
    /\ disableTriggers
    /\ pc = "apply"
    /\ FileTrigger \in DOMAIN outputDir
    /\ \E k \in DOMAIN outputDir[FileTrigger] :
         /\ generated[FileTrigger][k].type = "timer"
         /\ Has(generated[FileTrigger][k], "enabled")
         /\ generated[FileTrigger][k].enabled = TRUE
         /\ outputDir[FileTrigger][k].enabled = FALSE
    /\ \E k \in DOMAIN outputDir[FileTrigger] :
         /\ generated[FileTrigger][k].type = "manual"
         /\ Has(generated[FileTrigger][k], "enabled")
         /\ generated[FileTrigger][k].enabled = TRUE
         /\ outputDir[FileTrigger][k].enabled = TRUE

----------------------------------------------------------------------------
(* importTerraform: the normalization of the draft *)

\* C13: the normalization applied to a document it has already normalized
\* gives that document again
C13_NormalizeIdempotent ==
    Len(drafts) >= 3 => drafts[3] = drafts[2]

----------------------------------------------------------------------------
(* main: the values of the GRIT mapping file *)

\* the entries of the mapping file whose value validateGritUrl rejects
InvalidEntries ==
    {i \in 1..Len(gritFile) : ~validateGritUrl(TargetRegion, gritFile[i][2], TRUE).ok}

GritCountError(n) == Logged("error", "Setup", "gritErrorCount " \o ToString(n))

\* C14: while the checks settle, in whatever order, every invalid value that
\* has settled is counted; once the mapping was read and main is past the
\* wait, a file with invalid values has made Setup fail with an error that
\* reports the number of all its invalid values, and with no other number
C14_AllInvalidCounted ==
    /\ pc = "gritJoin" => errorCount = Cardinality(InvalidEntries \ gritPending)
    /\ (gritMapping # <<>> /\ pc # "gritJoin" /\ InvalidEntries # {}) =>
         /\ pc = "exit"
         /\ failed = "Setup"
         /\ GritCountError(Cardinality(InvalidEntries)) \in log
    /\ \A n \in 0..Len(gritFile) :
         GritCountError(n) \in log => (n > 0 /\ n = Cardinality(InvalidEntries))

\* a file of three entries with more than one invalid value, the first of
\* them valid or not, has made Setup fail
C14_Witness ==
    /\ Len(gritFile) = 3
    /\ Cardinality(InvalidEntries) >= 2
    /\ Cardinality(InvalidEntries) < Len(gritFile)
    /\ 1 \in InvalidEntries
    /\ pc = "exit"
    /\ GritCountError(Cardinality(InvalidEntries)) \in log

----------------------------------------------------------------------------
(* main: the questions put to the operator *)

\* C15: a run with --force puts no question and no confirmation to the
\* operator, at any stage
C15_ForceNeverPrompts ==
    skipUserConfirmation => prompts = {}

----------------------------------------------------------------------------
(* main: a dry run *)

\* C16: in a dry run terraform apply is never invoked, so that no toolchain
\* is created, and once ExportCompose is through the output directory holds
\* the written files, the toolchain file and output.tf among them; the run
\* ends with the Apply stage skipped
C16_DryRunWritesOnly ==
    dryRun =>
      /\ applies = <<>>
      /\ pc \notin {"applyToolchain", "applyRest"}
      /\ (\E i \in 1..Len(completed) : completed[i] = "ExportCompose") =>
            {FileToolchain, FileOutput, FileProvider} \subseteq DOMAIN outputDir
      /\ (\E i \in 1..Len(completed) : completed[i] = "Apply") =>
            Logged("info", "Apply", "skipping") \in log

\* a dry run has ended with exit code 0, the files written and nothing applied
C16_Witness ==
    /\ dryRun
    /\ pc = "exit"
    /\ exitCode = 0
    /\ completed = StageOrder
    /\ applies = <<>>
    /\ {FileToolchain, FileOutput} \subseteq DOMAIN outputDir
    /\ outputDir[FileToolchain] = generated[FileToolchain]

----------------------------------------------------------------------------
(* promptUserInput: the interrupt *)

\* the run was ended by the SIGINT handler of a prompt
Interrupted == \E at \in {"gritPrompt", "namePrompt", "tagPrompt"} : Logged("print", "sigint", at) \in log

\* C17: after an interrupt at a prompt the process has exited with a code
\* other than 0, the log stream is flushed and closed, and TEMP_DIR is gone
\* unless DEBUG_MODE is set
C17_SigintCleansUp ==
    (Interrupted /\ pc = "exit") =>
      /\ exitCode # 0
      /\ logStream # "open"
      /\ tempDir => DEBUG_MODE

----------------------------------------------------------------------------
(* setupTerraformFiles: the converted legacy tools *)

\* the resource r was made from the legacy tool t
ConvertedFrom(r, t) ==
    r.name = t.name /\ r.initialization.repo_url = t.parameters.repo_url

\* the converted resources as they are written
WrittenConverted ==
    IF FileGithub \in DOMAIN outputDir
    THEN {outputDir[FileGithub][k] : k \in DOMAIN outputDir[FileGithub] \cap DOMAIN newConvertedTf}
    ELSE {}

\* C18: a converted resource holds an api_token exactly when its legacy tool
\* has the auth type pat (and a token to copy), the token is then the one of
\* the legacy tool, and this is how the resource is written
C18_TokenOnlyForPat ==
    /\ \A k \in DOMAIN newConvertedTf : \A i \in 1..Len(github_integrated) :
         LET r == newConvertedTf[k]
             t == github_integrated[i]
         IN  ConvertedFrom(r, t) =>
               /\ Has(r.parameters, "api_token") <=>
                    (t.parameters.auth_type = "pat" /\ Has(t.parameters, "api_token"))
               /\ Has(r.parameters, "api_token") =>
                    r.parameters.api_token = t.parameters.api_token
    /\ WrittenConverted \subseteq Range(newConvertedTf)
    /\ (pc = "apply" /\ hasGHE) => WrittenConverted = Range(newConvertedTf)

\* two legacy tools that both have a token, one with the auth type pat and
\* one with oauth, are converted and written: the first with its token, the
\* second without
C18_Witness ==
    /\ pc = "apply"
    /\ Len(github_integrated) = 2
    /\ \E r \in WrittenConverted :
         /\ ConvertedFrom(r, github_integrated[1])
         /\ github_integrated[1].parameters.auth_type = "pat"
         /\ Has(github_integrated[1].parameters, "api_token")
         /\ Has(r.parameters, "api_token")
    /\ \E r \in WrittenConverted :
         /\ ConvertedFrom(r, github_integrated[2])
         /\ github_integrated[2].parameters.auth_type = "oauth"
         /\ Has(github_integrated[2].parameters, "api_token")
         /\ ~Has(r.parameters, "api_token")

----------------------------------------------------------------------------
(* validateGritUrl: the suffix of the project name *)

\* the value of the mapping file is the candidate of the group g and the
\* project name p
CandidateIs(g, p) == Len(gritFile) = 1 /\ gritFile[1][2] = CandidateUrl(g, p)

\* C19: a candidate whose project name ends in .git or in .atom is
\* rejected: Setup never goes past the validation of the mapping file with it
C19_SuffixRejected ==
    \A g \in CandidateGroups : \A p \in CandidateProjects :
        (CandidateIs(g, p) /\ (EndsWith(p, DotGit) \/ EndsWith(p, DotAtom))) => pc # "crn"

----------------------------------------------------------------------------
(* validateToolchainName: what is rejected *)

\* the code units outside ASCII that are printable
IsPrintableNonAscii(c) == c = NonAsciiLetter

\* the --name option was rejected by validateToolchainName
NameRejected == Logged("error", "Setup", "name") \in log

\* Setup went on with the name
NameAccepted == pc = "dupName"

TooLong(name) == Len(Trim(name)) > MaxNameLen

\* C20 as stated: a name that after trimming is longer than 128 characters
\* or holds a character that is neither a printable non-ASCII one nor a
\* letter, digit, hyphen, period, underscore or space is never accepted
C20_NameRejected ==
    (TooLong(tcName)
     \/ \E i \in 1..Len(Trim(tcName)) :
          ~IsPrintableNonAscii(Trim(tcName)[i]) /\ ~IsNameChar(Trim(tcName)[i]))
      => ~NameAccepted

\* what the pattern of the code excludes: an ASCII character that is no
\* letter, digit, hyphen, period, underscore or space
HasBadAscii(name) ==
    \E i \in 1..Len(Trim(name)) : IsAscii(Trim(name)[i]) /\ ~IsNameChar(Trim(name)[i])

\* C20 (amended): a name that after trimming is longer than 128 characters
\* or holds an ASCII character that is no letter, digit, hyphen, period,
\* underscore or space is never accepted, and a name is only rejected for
\* one of these two reasons or because nothing is left of it after trimming;
\* characters outside ASCII are all allowed
C20_AsciiNameRejected ==
    /\ (TooLong(tcName) \/ HasBadAscii(tcName)) => ~NameAccepted
    /\ NameRejected => (TooLong(tcName) \/ HasBadAscii(tcName) \/ Trim(tcName) = <<>>)

\* validateName("My Tool!!") has failed
C20_Witness ==
    /\ tcName = <<"M","y"," ","T","o","o","l","!","!">>
    /\ NameRejected
    /\ failed = "Setup"
    /\ exitCode = 1

----------------------------------------------------------------------------
(* setupTerraformFiles: the urls the remediation hands out *)

\* the loop over the hosted-git resources has ended
GritDone == pc = "grit" /\ gritIdx > Len(hostedgit)

\* the resource was given a url by the loop itself, not by the mapping file
NewlyAssigned(i) == hostedgit[i].how \in {"candidate", "prompt"}

\* C21: at the end of the remediation a url the loop wrote into a resource
\* is no value of the mapping file and is written into no other resource
C21_TargetUrlsDistinct ==
    GritDone =>
      \A i \in 1..Len(hostedgit) :
        NewlyAssigned(i) =>
          /\ hostedgit[i].url \notin Range(MappingOf(gritFile))
          /\ \A j \in 1..Len(hostedgit) :
               (j # i /\ NewlyAssigned(j)) => hostedgit[j].url # hostedgit[i].url

----------------------------------------------------------------------------
(* setupTerraformFiles: what the injected depends_on names *)

\* the resource k of the file f is written with a depends_on it was not
\* generated with
DependsOnInjected(f, k) ==
    Has(outputDir[f][k], "depends_on") /\ ~Has(generated[f][k], "depends_on")

\* C22: a depends_on is injected only into a trigger or definition whose
\* source url is the repo_url of a converted legacy tool, and it names the
\* converted resource of that tool, which exists
C22_DependsOnNamesConverted ==
    \A f \in InjectedFiles \cap DOMAIN outputDir : \A k \in DOMAIN outputDir[f] :
        DependsOnInjected(f, k) =>
            /\ ~SourceThrows(generated[f][k])
            /\ SourceUrl(generated[f][k]) \in
                 {github_integrated[i].parameters.repo_url : i \in 1..Len(github_integrated)}
            /\ \E n \in DOMAIN newConvertedTf :
                 /\ newConvertedTf[n].initialization.repo_url = SourceUrl(generated[f][k])
                 /\ outputDir[f][k].depends_on =
                      <<"ibm_cd_toolchain_tool_githubconsolidated." \o n>>

----------------------------------------------------------------------------
(* setupTerraformFiles: the order of the rewrites *)

\* the resources of a type in a directory, whatever the mode; none when the
\* directory has no file or no resource of the type
ResourcesIn(dir, type) ==
    IF isCompact
    THEN IF Has(dir, FileResources) /\ Has(dir[FileResources], type)
         THEN dir[FileResources][type] ELSE NoKeys
    ELSE IF \E f \in DOMAIN dir \cap Range(FileOrder) : ResourceNameOf(f) = type
         THEN dir[FileOfType(type)] ELSE NoKeys

\* the toolchain is written with the name and the tag of the options
ToolchainOverridden ==
    /\ Has(ResourcesIn(outputDir, "ibm_cd_toolchain"), ToolchainId)
    /\ ResourcesIn(outputDir, "ibm_cd_toolchain")[ToolchainId].name = tcName

\* a hosted-git resource has gone through the remediation
Remediated(i) == hostedgit[i].how # "pending"

\* C23 as stated: the remediation of the hosted-git urls comes after the
\* toolchain overrides, so no hosted-git resource is remediated while the
\* toolchain is not yet overridden
C23_RemediationAfterOverrides ==
    (\E i \in 1..Len(hostedgit) : Remediated(i)) => ToolchainOverridden

\* C23 (amended): the remediation of the hosted-git urls comes first: a
\* file with rewritten resources is only written once every hosted-git
\* resource has gone through it
C23_RemediationFirst ==
    (\E f \in DOMAIN outputDir : f \notin {FileProvider, FileOutput}) =>
        \A i \in 1..Len(hostedgit) : Remediated(i)

\* in compact mode a hosted-git resource got its candidate, and then the
\* toolchain was overridden and the trigger disabled in resources.tf
C23_Witness ==
    /\ isCompact
    /\ pc = "apply"
    /\ \E i \in 1..Len(hostedgit) : hostedgit[i].how = "candidate"
    /\ ToolchainOverridden
    /\ Has(ResourcesIn(outputDir, "ibm_cd_tekton_pipeline_trigger"), "t1")
    /\ ResourcesIn(outputDir, "ibm_cd_tekton_pipeline_trigger")["t1"].enabled = FALSE

----------------------------------------------------------------------------
(* setupTerraformFiles: a repo_url that is no url *)

\* the hosted-git resource has a repo_url, and new URL() throws on it
Unparseable(i) ==
    /\ hostedgit[i].url0 # Undefined
    /\ hostedgit[i].url0 # <<>>
    /\ ~ParseUrl(hostedgit[i].url0).ok

\* C24: a hosted-git resource whose repo_url does not parse as a url, and
\* that got no url from the mapping or from the operator, keeps its repo_url,
\* and its pass of the loop raises no error
C24_UnparsedUrlKept ==
    \A i \in 1..Len(hostedgit) :
        (/\ Unparseable(i)
         /\ Processed(i)
         /\ hostedgit[i].how \notin {"mapping", "prompt"}) =>
            /\ hostedgit[i].url = hostedgit[i].url0
            /\ ~hostedgit[i].threw

----------------------------------------------------------------------------
(* setupTerraformFiles: the tags of the toolchain *)

\* the tags the toolchain was generated with
SourceTags ==
    LET tc == ResourcesIn(generated, "ibm_cd_toolchain")[ToolchainId]
    IN  IF Has(tc, "tags") THEN tc.tags ELSE <<>>

\* how often x is an element of the list s
Count(s, x) == Cardinality({i \in 1..Len(s) : s[i] = x})

\* C25: with a target tag, the tags the toolchain is written with hold every
\* tag it had and the target tag, each exactly once
C25_TagsAppended ==
    (Has(ResourcesIn(outputDir, "ibm_cd_toolchain"), ToolchainId) /\ targetTag # <<>>) =>
        LET tags == ResourcesIn(outputDir, "ibm_cd_toolchain")[ToolchainId].tags
        IN  \A x \in Range(SourceTags) \cup {targetTag} : Count(tags, x) = 1

----------------------------------------------------------------------------
(* importBlock, setupTerraformFiles: the local names *)

\* C26: no two import blocks name the same resource (type and local name),
\* and every legacy tool has a converted resource under a name of its own
C26_LocalNamesUnique ==
    /\ \A i, j \in 1..Len(importBlocks) :
         i # j => importBlocks[i].to # importBlocks[j].to
    /\ DOMAIN newConvertedTf # {} =>
         Cardinality(DOMAIN newConvertedTf) = Len(github_integrated)

----------------------------------------------------------------------------
(* C27 *)

\* the name of the block importTerraform pushed for the tool
BlockNameOf(tool) ==
    (CHOOSE b \in Range(importBlocks) : b.path = <<ToolchainId, tool.id>>).name

\* the secret keys of a supported tool that are in use (no prerequisite, or
\* the prerequisite is met) and whose live value is no secret reference
UncopiedSecretKeys(tool) ==
    IF IsSupported(tool) /\ Render(tool.tool_type_id) \in DOMAIN SECRET_KEYS_MAP
    THEN {e \in Range(SECRET_KEYS_MAP[Render(tool.tool_type_id)]) :
            /\ e.prereq = NoPrereq \/ Render(ParameterOf(tool, e.prereq.key)) \in e.prereq.values
            /\ ~isSecretReference(ParameterOf(tool, e.key))}
    ELSE {}

\* the record of key e of the tool: block name, terraform key, file
RefOf(tool, e) ==
    [resource_name |-> BlockNameOf(tool), property_name |-> e.tfKey,
     file_name |-> NonSecretFileName(Render(tool.tool_type_id))]

ImportReturned == "SnapshotImport" \in Range(completed)

\* the record is a row of the table main printed
Surfaced(r) ==
    Logged("table", Render(r.resource_name), r.property_name \o " " \o r.file_name) \in log

\* C27: every secret key in use whose live value is no secret reference is
\* recorded in nonSecretRefs, and shown once the import has returned
C27_AllRecorded ==
    \A i \in 1..(toolIdx - 1) : \A e \in UncopiedSecretKeys(tools[i]) :
        /\ RefOf(tools[i], e) \in Range(nonSecretRefs)
        /\ ImportReturned => Surfaced(RefOf(tools[i], e))

\* C27 (amended): the keys recorded are the ones that are required or have a
\* prerequisite; every record stands for such a key, and every record is
\* shown with the warning once the import has returned
C27_RequiredRecorded ==
    /\ \A i \in 1..(toolIdx - 1) : \A e \in UncopiedSecretKeys(tools[i]) :
          (e.required \/ e.prereq # NoPrereq) => RefOf(tools[i], e) \in Range(nonSecretRefs)
    /\ \A r \in Range(nonSecretRefs) :
          \E i \in 1..Len(tools) : \E e \in UncopiedSecretKeys(tools[i]) :
             /\ i <= toolIdx
             /\ e.required \/ e.prereq # NoPrereq
             /\ r = RefOf(tools[i], e)
    /\ ImportReturned =>
          /\ \A r \in Range(nonSecretRefs) : Surfaced(r)
          /\ nonSecretRefs # <<>> => Logged("warn", "SnapshotImport", "nonSecretRefs") \in log

\* the import returned with the literal key of the object store recorded and shown
C27_Witness ==
    /\ ImportReturned
    /\ \E r \in Range(nonSecretRefs) :
          /\ r.property_name = "cos_api_key"
          /\ r.file_name \in {"cd_toolchain_tool_cos.tf", "resources.tf"}
          /\ Surfaced(r)
    /\ ToolJenkins \in Range(tools)

----------------------------------------------------------------------------
(* C28 *)

\* the property resource k of the type was written, in its file or in resources.tf
PropertyWritten(type, k) ==
    /\ Has(ResourcesIn(generated, type), k)
    /\ Has(ResourcesIn(outputDir, type), k)

\* the property is of type integration and its value is the id of a legacy tool
RefersToLegacyTool(v) ==
    Has(v, "type") /\ v.type = "integration" /\ Has(v, "value")
    /\ \E i \in 1..Len(github_integrated) : github_integrated[i].id = v.value

\* C28: a pipeline property or trigger property of type integration whose
\* value is the id of a legacy tool is written with the reference to the
\* tool_id of the converted resource the reverse lookup names for that id,
\* and every other property is written as it was generated
C28_IntegrationRewired ==
    \A i \in 1..Len(PropertyTypes) :
      \A k \in DOMAIN ResourcesIn(generated, PropertyTypes[i]) :
        PropertyWritten(PropertyTypes[i], k) =>
          LET g == ResourcesIn(generated, PropertyTypes[i])[k]
              o == ResourcesIn(outputDir, PropertyTypes[i])[k]
          IN  IF RefersToLegacyTool(g)
              THEN /\ g.value \in DOMAIN toolIdToTfName
                   /\ toolIdToTfName[g.value] \in DOMAIN newConvertedTf
                   /\ o = Put(g, "value",
                              "${ibm_cd_toolchain_tool_githubconsolidated."
                                \o toolIdToTfName[g.value] \o ".tool_id}")
              ELSE o = g

\* ExportCompose is over with a pipeline property and a trigger property
\* rewired to the converted resource, which is in the output
C28_Witness ==
    /\ pc = "apply"
    /\ github_integrated # <<>>
    /\ \A i \in 1..Len(PropertyTypes) :
          /\ PropertyWritten(PropertyTypes[i], <<"p1", "q1">>[i])
          /\ RefersToLegacyTool(ResourcesIn(generated, PropertyTypes[i])[<<"p1", "q1">>[i]])
          /\ ResourcesIn(outputDir, PropertyTypes[i])[<<"p1", "q1">>[i]].value
               # ResourcesIn(generated, PropertyTypes[i])[<<"p1", "q1">>[i]].value
    /\ DOMAIN newConvertedTf
         \subseteq DOMAIN ResourcesIn(outputDir, "ibm_cd_toolchain_tool_githubconsolidated")


----------------------------------------------------------------------------
(* C29 *)

SourcedTypes == <<"ibm_cd_tekton_pipeline_trigger", "ibm_cd_tekton_pipeline_definition">>

\* the hosted-git resource was written with a repo_url other than the one it had
GivenNewUrl(i) == hostedgit[i].url0 # Undefined /\ hostedgit[i].url # hostedgit[i].url0

\* C29: once ExportCompose is over, a trigger or a definition whose source
\* url was the repo_url of a hosted-git resource that has been given a new
\* url is written with that new url, in split and in compact mode
C29_SourcesFollowHostedgit ==
    pc = "apply" =>
      \A i \in 1..Len(hostedgit) : GivenNewUrl(i) =>
        \A n \in 1..Len(SourcedTypes) :
          \A k \in DOMAIN ResourcesIn(generated, SourcedTypes[n]) :
            ResourcesIn(generated, SourcedTypes[n])[k].source.url = hostedgit[i].url0 =>
              /\ Has(ResourcesIn(outputDir, SourcedTypes[n]), k)
              /\ ResourcesIn(outputDir, SourcedTypes[n])[k].source.url = hostedgit[i].url

\* the same without --force
C29_Probe == ~skipUserConfirmation => C29_SourcesFollowHostedgit


----------------------------------------------------------------------------
(* C30 *)

\* C30: in compact mode the rewrite of resources.tf never throws, whatever
\* resource types the draft lacks
C30_CompactRewriteCompletes ==
    isCompact => Logged("error", "ExportCompose", "rewrite") \notin log

====
